---- MODULE Spec2Model ----
(***************************************************************************)
(* Model of the enigma coordination layer:                                 *)
(*   - the Epoch Register of the principal enclave                         *)
(*     (enigma-principal/enclave/src/epoch_keeper_t/mod.rs);               *)
(*   - the request dispatcher of the core application                      *)
(*     (enigma-core/app/src/networking/ipc_listener.rs).                   *)
(* Results of fallible calls are records [kind, val] with kind one of      *)
(* "Ok", "Err", "Panic" (a Rust panic unwinds through the caller).         *)
(***************************************************************************)
EXTENDS Integers, Sequences, FiniteSets, TLC

VARIABLES epochs, poisoned, ret

evars == <<epochs, poisoned, ret>>

VARIABLES db, pc, nreq, request, results, response

dvars == <<db, pc, nreq, request, results, response>>

----------------------------------------------------------------------------
(* Bounds and input domains                                                *)

MaxNonce == 3

MaxBatch == 2

Seeds == {11, 12}

BlockNumbers == {100, 101}

ScAddrs == {1, 2}

WorkerLists == {<<"w1", "w2">>, <<"w2", "w3">>}

(* Logs of a receipt: a log either decodes to a worker list or does not *)
Logs ==
    {[decodable |-> FALSE, workers |-> <<>>]}
        \cup {[decodable |-> TRUE, workers |-> w] : w \in WorkerLists}

(* Receipts handed to verify_worker_params: without log or with one log,
   block_hash naming the block the receipt is said to be part of *)
Receipts ==
    {[logs |-> <<>>, block_hash |-> "b1"]}
        \cup {[logs |-> <<l>>, block_hash |-> b] : l \in Logs, b \in {"b1", "x9"}}

----------------------------------------------------------------------------
(* Option and Result values                                                *)

EmptyMap == [x \in {} |-> x]

NoneVal == [some |-> FALSE]

Some(v) == [some |-> TRUE, val |-> v]

Ok(v) == [kind |-> "Ok", val |-> v]

Err(e) == [kind |-> "Err", val |-> e]

Panic == [kind |-> "Panic", val |-> "panic"]

IsOk(r) == r.kind = "Ok"

IsErr(r) == r.kind = "Err"

IsPanic(r) == r.kind = "Panic"

SetMax(S) == CHOOSE m \in S : \A x \in S : x <= m

SetMin(S) == CHOOSE m \in S : \A x \in S : m <= x

----------------------------------------------------------------------------
(* Epoch register                                                          *)

INIT_NONCE == 0

PREVERIFIED_BLOCK_HASH == "ae67b813aa89d47d4ba4d34dcd8b77a57bd433338ac0980137f5a6ca81ff9566"

(* a block header: its own hash and the hash of its parent *)
BlockHeader(hash, parent_hash) == [hash |-> hash, parent_hash |-> parent_hash]

(* Block header lists: empty, one or two headers on top of the trusted
   block, one header on top of some other block *)
BlockHeaderLists ==
    {<<>>,
     <<BlockHeader("b1", PREVERIFIED_BLOCK_HASH)>>,
     <<BlockHeader("b1", PREVERIFIED_BLOCK_HASH), BlockHeader("b2", "b1")>>,
     <<BlockHeader("x1", "x0")>>}

(* nonce hardcoded by ecall_set_worker_params_internal *)
SET_PARAMS_NONCE == 1

Epoch(seed, wp, hash) ==
    [seed |-> seed, worker_params |-> wp, preverified_block_hash |-> hash]

(* HashMap::insert: stores the value, returns the value previously held *)
MapInsert(m, k, v) ==
    [map |-> [x \in (DOMAIN m) \cup {k} |-> IF x = k THEN v ELSE m[x]],
     old |-> IF k \in DOMAIN m THEN Some(m[k]) ELSE NoneVal]

get_epoch_min(guard, block_number) ==
    IF block_number.some
    THEN Err("Epoch lookup by block number not implemented.")
    ELSE IF DOMAIN guard = {}
         THEN Ok(NoneVal)
         ELSE Ok(Some(guard[SetMin(DOMAIN guard)]))

get_epoch_any(guard, block_number) ==
    IF DOMAIN guard = {}
    THEN Ok(NoneVal)
    ELSE Ok(Some(guard[SetMax(DOMAIN guard)]))

get_epoch(guard, block_number) ==
    IF block_number.some
    THEN Err("Epoch lookup by block number not implemented.")
    ELSE IF DOMAIN guard = {}
         THEN Ok(NoneVal)
         ELSE Ok(Some(guard[SetMax(DOMAIN guard)]))

(* nonce of the epoch to store *)
NextNonce_reuse(guard, epoch) ==
    IF epoch.some THEN SetMax(DOMAIN guard) ELSE INIT_NONCE

NextNonce(guard, epoch) ==
    IF epoch.some THEN SetMax(DOMAIN guard) + 1 ELSE INIT_NONCE

(* block hash carried by the new epoch *)
NewEpochHash(epoch) ==
    IF epoch.some
    THEN epoch.val.preverified_block_hash
    ELSE PREVERIFIED_BLOCK_HASH

(* result of the call, decided on what HashMap::insert returned *)
StoreResult(old, nonce) ==
    IF old.some THEN Ok(nonce) ELSE Err("Unable to store new Epoch")

(* WorkerParams::try_from(Log): decoding of the first log of the receipt *)
WorkerParamsTryFrom(log) ==
    IF log.decodable THEN Ok([workers |-> log.workers]) ELSE Err("decode")

(* Epoch::set_worker_params *)
SetWorkerParams(epoch, params) ==
    IF epoch.worker_params.some
    THEN Err("Worker parameters already set")
    ELSE Ok([epoch EXCEPT !.worker_params = Some(params)])

(* Epoch::get_selected_workers: a function of seed, worker params and address *)
GetSelectedWorkers(epoch, sc_addr) ==
    IF ~epoch.worker_params.some
    THEN Err("No worker parameters")
    ELSE LET ws == epoch.worker_params.val.workers
         IN  Ok(<<ws[((epoch.seed + sc_addr) % Len(ws)) + 1]>>)

Ret(op, res, arg) == [op |-> op, res |-> res, arg |-> arg]

(* ecall_generate_epoch_seed_internal.  rand_ok / sign_ok: outcome of
   rsgx_read_rand and of SIGNINING_KEY.sign; seed: the random bytes read. *)
ecall_generate_epoch_seed_internal(rand_ok, sign_ok, seed) ==
    LET arg == [rand_ok |-> rand_ok, sign_ok |-> sign_ok, seed |-> seed]
    IN
    IF poisoned
    THEN /\ ret' = Ret("generate_epoch_seed", Panic, arg)
         /\ UNCHANGED <<epochs, poisoned>>
    ELSE LET epoch == get_epoch(epochs, NoneVal).val
             nonce == NextNonce(epochs, epoch)
             new_epoch == Epoch(seed, NoneVal, NewEpochHash(epoch))
             ins == MapInsert(epochs, nonce, new_epoch)
         IN  /\ nonce <= MaxNonce
             /\ IF ~rand_ok \/ ~sign_ok
                THEN /\ ret' = Ret("generate_epoch_seed", Err("sgx"), arg)
                     /\ UNCHANGED epochs
                ELSE /\ epochs' = ins.map
                     /\ ret' = Ret("generate_epoch_seed",
                                   StoreResult(ins.old, nonce), arg)
             /\ UNCHANGED poisoned

(* ecall_get_verified_worker_params_internal without the test of
   block_headers_raw.get(0) *)
ecall_get_verified_worker_params_unchecked(receipt, block_headers) ==
    LET arg == [receipt |-> receipt, block_headers |-> block_headers]
        op == "verify_worker_params"
    IN
    IF poisoned
    THEN /\ ret' = Ret(op, Panic, arg)
         /\ UNCHANGED <<epochs, poisoned>>
    ELSE LET epoch == get_epoch(epochs, NoneVal).val
         IN  IF ~epoch.some
             THEN /\ ret' = Ret(op, Err("No Epoch found in storage."), arg)
                  /\ UNCHANGED <<epochs, poisoned>>
             ELSE IF receipt.logs = <<>>
             THEN /\ ret' = Ret(op, Panic, arg)
                  /\ poisoned' = TRUE
                  /\ UNCHANGED epochs
             ELSE /\ ret' = Ret(op, WorkerParamsTryFrom(receipt.logs[1]), arg)
                  /\ UNCHANGED <<epochs, poisoned>>

(* ecall_get_verified_worker_params_internal.  The block verifier is
   commented out in the source (lines 130-135): neither block_headers beyond
   its first element being present nor receipt_hashes is looked at. *)
ecall_get_verified_worker_params_internal(receipt, block_headers) ==
    LET arg == [receipt |-> receipt, block_headers |-> block_headers]
        op == "verify_worker_params"
    IN
    IF block_headers = <<>>
    THEN /\ ret' = Ret(op, Err("The BlockHeaders parameter is empty."), arg)
         /\ UNCHANGED <<epochs, poisoned>>
    ELSE IF poisoned
    THEN /\ ret' = Ret(op, Panic, arg)
         /\ UNCHANGED <<epochs, poisoned>>
    ELSE LET epoch == get_epoch(epochs, NoneVal).val
         IN  IF ~epoch.some
             THEN /\ ret' = Ret(op, Err("No Epoch found in storage."), arg)
                  /\ UNCHANGED <<epochs, poisoned>>
             ELSE IF receipt.logs = <<>>
             THEN (* receipt.logs[0] panics while the guard is held *)
                  /\ ret' = Ret(op, Panic, arg)
                  /\ poisoned' = TRUE
                  /\ UNCHANGED epochs
             ELSE /\ ret' = Ret(op, WorkerParamsTryFrom(receipt.logs[1]), arg)
                  /\ UNCHANGED <<epochs, poisoned>>

(* ecall_set_worker_params_internal creating the entry it does not find *)
ecall_set_worker_params_upsert(params) ==
    LET arg == [params |-> params]
        op == "commit_worker_params"
        nonce == SET_PARAMS_NONCE
    IN
    IF poisoned
    THEN /\ ret' = Ret(op, Panic, arg)
         /\ UNCHANGED <<epochs, poisoned>>
    ELSE LET cur == IF nonce \in DOMAIN epochs
                    THEN epochs[nonce]
                    ELSE Epoch(0, NoneVal, PREVERIFIED_BLOCK_HASH)
             r == SetWorkerParams(cur, params)
         IN  /\ ret' = Ret(op, IF IsOk(r) THEN Ok("unit") ELSE r, arg)
             /\ epochs' = IF IsOk(r) THEN MapInsert(epochs, nonce, r.val).map
                                     ELSE epochs
             /\ UNCHANGED poisoned

(* ecall_set_worker_params_internal assigning the field itself *)
ecall_set_worker_params_overwrite(params) ==
    LET arg == [params |-> params]
        op == "commit_worker_params"
        nonce == SET_PARAMS_NONCE
    IN
    IF poisoned
    THEN /\ ret' = Ret(op, Panic, arg)
         /\ UNCHANGED <<epochs, poisoned>>
    ELSE IF nonce \notin DOMAIN epochs
    THEN /\ ret' = Ret(op, Err("Cannot set the workers parameters without a nonce in the Epoch mutex."), arg)
         /\ UNCHANGED <<epochs, poisoned>>
    ELSE /\ ret' = Ret(op, Ok("unit"), arg)
         /\ epochs' = [epochs EXCEPT ![nonce].worker_params = Some(params)]
         /\ UNCHANGED poisoned

(* ecall_set_worker_params_internal *)
ecall_set_worker_params_internal(params) ==
    LET arg == [params |-> params]
        op == "commit_worker_params"
        nonce == SET_PARAMS_NONCE
    IN
    IF poisoned
    THEN /\ ret' = Ret(op, Panic, arg)
         /\ UNCHANGED <<epochs, poisoned>>
    ELSE IF nonce \notin DOMAIN epochs
    THEN /\ ret' = Ret(op, Err("Cannot set the workers parameters without a nonce in the Epoch mutex."), arg)
         /\ UNCHANGED <<epochs, poisoned>>
    ELSE LET r == SetWorkerParams(epochs[nonce], params)
         IN  /\ ret' = Ret(op, IF IsOk(r) THEN Ok("unit") ELSE r, arg)
             /\ epochs' = IF IsOk(r) THEN [epochs EXCEPT ![nonce] = r.val] ELSE epochs
             /\ UNCHANGED poisoned

(* ecall_get_epoch_workers_internal taking the worker params out of the
   epoch it selects from *)
ecall_get_epoch_workers_taking(sc_addr, block_number) ==
    LET arg == [sc_addr |-> sc_addr, block_number |-> block_number]
        op == "selected_workers"
    IN
    IF poisoned
    THEN /\ ret' = Ret(op, Panic, arg)
         /\ UNCHANGED <<epochs, poisoned>>
    ELSE LET e == get_epoch(epochs, block_number)
         IN  IF ~IsOk(e)
             THEN /\ ret' = Ret(op, e, arg)
                  /\ UNCHANGED <<epochs, poisoned>>
             ELSE IF ~e.val.some
             THEN /\ ret' = Ret(op, Err("Cannot verify receipt without a nonce in the Epoch mutex."), arg)
                  /\ UNCHANGED <<epochs, poisoned>>
             ELSE /\ ret' = Ret(op, GetSelectedWorkers(e.val.val, sc_addr), arg)
                  /\ epochs' = [epochs EXCEPT
                        ![SetMax(DOMAIN epochs)].worker_params = NoneVal]
                  /\ UNCHANGED poisoned

(* ecall_get_epoch_workers_internal *)
ecall_get_epoch_workers_internal(sc_addr, block_number) ==
    LET arg == [sc_addr |-> sc_addr, block_number |-> block_number]
        op == "selected_workers"
    IN
    /\ IF poisoned
       THEN ret' = Ret(op, Panic, arg)
       ELSE LET e == get_epoch(epochs, block_number)
            IN  IF ~IsOk(e)
                THEN ret' = Ret(op, e, arg)
                ELSE IF ~e.val.some
                THEN ret' = Ret(op, Err("Cannot verify receipt without a nonce in the Epoch mutex."), arg)
                ELSE ret' = Ret(op, GetSelectedWorkers(e.val.val, sc_addr), arg)
    /\ UNCHANGED <<epochs, poisoned>>

EpochInit ==
    /\ epochs = EmptyMap
    /\ poisoned = FALSE
    /\ ret = Ret("init", Ok("unit"), [none |-> TRUE])

GenerateEpochSeed ==
    \E rand_ok \in BOOLEAN, sign_ok \in BOOLEAN, seed \in Seeds :
        ecall_generate_epoch_seed_internal(rand_ok, sign_ok, seed)

VerifyWorkerParams ==
    \E receipt \in Receipts, block_headers \in BlockHeaderLists :
        ecall_get_verified_worker_params_internal(receipt, block_headers)

CommitWorkerParams ==
    \E w \in WorkerLists : ecall_set_worker_params_internal([workers |-> w])

SelectedWorkers ==
    \E sc_addr \in ScAddrs,
       block_number \in {NoneVal} \cup {Some(b) : b \in BlockNumbers} :
        ecall_get_epoch_workers_internal(sc_addr, block_number)


----------------------------------------------------------------------------
(* Byte strings and their hex wire form                                    *)

ADDR_LEN == 32

PUBKEY_LEN == 64

Bytes(len, v) == [len |-> len, v |-> v]

EmptyBytes == Bytes(0, 0)

(* ToHex: the hex text of a byte string; BadHex: text that is not hex *)
ToHex(b) == [valid |-> TRUE, bytes |-> b]

BadHex == [valid |-> FALSE, bytes |-> EmptyBytes]

FromHex(s) == IF s.valid THEN Ok(s.bytes) ELSE Err("InvalidHex")

FromHex32(s) ==
    IF ~s.valid THEN Err("InvalidHex")
    ELSE IF s.bytes.len # ADDR_LEN THEN Err("InvalidLength")
    ELSE Ok(s.bytes)

----------------------------------------------------------------------------
(* Delta Store (crate::db): a map from DeltaKey to bytes                   *)

ByteCode == [t |-> "ByteCode", n |-> 0]

Delta(n) == [t |-> "Delta", n |-> n]

DeltaKey(hash, key_type) == [hash |-> hash, key_type |-> key_type]

DeltaIdx(d, address) ==
    {k.key_type.n : k \in {x \in DOMAIN d : x.hash = address /\ x.key_type.t = "Delta"}}

DbAddresses(d) == {k.hash : k \in DOMAIN d}

(* a finite set of integers as a sequence in increasing order *)
RECURSIVE SortedInts(_)
SortedInts(S) ==
    IF S = {} THEN <<>>
    ELSE <<SetMin(S)>> \o SortedInts(S \ {SetMin(S)})

(* a finite set of addresses in key order *)
SortedAddrs(S) ==
    LET vs == SortedInts({a.v : a \in S})
    IN  [i \in 1..Len(vs) |-> Bytes(ADDR_LEN, vs[i])]

db_get_tip(d, address) ==
    IF DeltaIdx(d, address) = {}
    THEN Err("NotFound")
    ELSE LET k == DeltaKey(address, Delta(SetMax(DeltaIdx(d, address))))
         IN  Ok(<<k, d[k]>>)

db_get_all_tips(d) ==
    LET as == SortedAddrs({a \in DbAddresses(d) : DeltaIdx(d, a) # {}})
    IN  Ok([i \in 1..Len(as) |-> db_get_tip(d, as[i]).val])

db_get_all_addresses(d) == Ok(SortedAddrs(DbAddresses(d)))

db_get_delta(d, key) ==
    IF key \in DOMAIN d THEN Ok(d[key]) ELSE Err("NotFound")

db_get_deltas(d, from, to) ==
    LET idx == {n \in DeltaIdx(d, from.hash) :
                    from.key_type.n <= n /\ n < to.key_type.n}
        ns == SortedInts(idx)
    IN  IF idx = {}
        THEN Ok(NoneVal)
        ELSE Ok(Some([i \in 1..Len(ns) |->
                        <<DeltaKey(from.hash, Delta(ns[i])),
                          d[DeltaKey(from.hash, Delta(ns[i]))]>>]))

db_get_contract(d, address) ==
    IF DeltaKey(address, ByteCode) \in DOMAIN d
    THEN Ok(d[DeltaKey(address, ByteCode)])
    ELSE Err("NotFound")

db_force_update(d, key, value) ==
    [res |-> Ok("unit"),
     db |-> [k \in (DOMAIN d) \cup {key} |-> IF k = key THEN value ELSE d[k]]]

(* create: fails when the key is already stored *)
db_create(d, key, value) ==
    IF key \in DOMAIN d
    THEN [res |-> Err("KeyExists"), db |-> d]
    ELSE [res |-> Ok("unit"),
          db |-> [k \in (DOMAIN d) \cup {key} |-> IF k = key THEN value ELSE d[k]]]

(* insert_tuples: each tuple applied on its own, results position-aligned *)
RECURSIVE db_insert_tuples(_, _)
db_insert_tuples(d, tuples) ==
    IF tuples = <<>>
    THEN [res |-> <<>>, db |-> d]
    ELSE LET one == db_create(d, tuples[1][1], tuples[1][2])
             rest == db_insert_tuples(one.db, Tail(tuples))
         IN  [res |-> <<one.res>> \o rest.res, db |-> rest.db]

----------------------------------------------------------------------------
(* Messages of the request/response protocol                               *)

(* zmq::Message::default(): the empty message *)
DefaultMessage == [empty |-> TRUE]

(* IpcResponse{id, result}.into(): the serialized response *)
IpcResponse(type, id, result) ==
    [empty |-> FALSE, type |-> type, id |-> id, result |-> result]

IpcDelta(address, key, delta) == [address |-> address, key |-> key, delta |-> delta]

IpcDeltaDefault == IpcDelta(NoneVal, 0, NoneVal)

(* IpcDelta::from_delta_key *)
IpcDeltaFromDeltaKey(k, data) ==
    IF k.key_type.t = "Delta"
    THEN Ok(IpcDelta(Some(ToHex(k.hash)), k.key_type.n, Some(ToHex(data))))
    ELSE Err("This isn't a delta")

(* Result<Message, Error>::unwrap_or_default *)
UnwrapOrDefault(r) == IF IsOk(r) THEN r.val ELSE DefaultMessage

(* what a handler hands back: its result and the store it leaves *)
H(res, d) == [res |-> res, db |-> d]

(* output of the enclave for a task, and of the key management calls *)
TaskOutput == Bytes(3, 71)

TaskDelta == Bytes(3, 72)

TaskSignature == Bytes(65, 73)

DhKey == Bytes(PUBKEY_LEN, 74)

PttRequest == Bytes(3, 75)

Report == Bytes(3, 76)

SigningKey == "signing_address"

(* keccak256 of a byte string: a 32-byte digest *)
Keccak256(b) == Bytes(ADDR_LEN, 1000 + b.v)

(* user_pubkey.clone_from_slice(&bytes): panics unless 64 bytes are given *)
CloneFromSlice64(b) == IF b.len = PUBKEY_LEN THEN Ok(b) ELSE Panic

----------------------------------------------------------------------------
(* handling::* : one operator per handler.  env is the outcome of the calls
   the handler makes outside this layer (enclave, attestation service):
   "ok", "err" (an error value) or "panic". *)

get_registration_params(id, d, env) ==
    IF env = "err" THEN H(Err("external"), d)
    ELSE IF env = "panic" THEN H(Panic, d)
    ELSE H(Ok(IpcResponse("GetRegistrationParams", id,
                [sigining_key |-> SigningKey, report |-> ToHex(Report),
                 signature |-> ToHex(TaskSignature)])), d)

(* identity_challange answering the challenge *)
identity_challange_answering(id, nonce, d) ==
    H(Ok(IpcResponse("IdentityChallenge", id, [nonce |-> nonce])), d)

identity_challange(id, nonce, d) == H(Panic, d)

get_tip_fixed_id(id, input, d) ==
    LET address == FromHex32(input)
    IN  IF ~IsOk(address) THEN H(address, d)
        ELSE LET tip == db_get_tip(d, address.val)
             IN  IF ~IsOk(tip) THEN H(tip, d)
                 ELSE H(Ok(IpcResponse("GetTip", 1,
                            IpcDelta(NoneVal, tip.val[1].key_type.n,
                                     Some(ToHex(tip.val[2]))))), d)

(* get_tip answering with the first delta of the address *)
get_tip_lowest(id, input, d) ==
    LET address == FromHex32(input)
    IN  IF ~IsOk(address) THEN H(address, d)
        ELSE LET tip == db_get_tip(d, address.val)
             IN  IF ~IsOk(tip) THEN H(tip, d)
                 ELSE LET n == SetMin(DeltaIdx(d, address.val))
                      IN  H(Ok(IpcResponse("GetTip", id,
                                IpcDelta(NoneVal, n,
                                    Some(ToHex(d[DeltaKey(address.val, Delta(n))]))))), d)

get_tip(id, input, d) ==
    LET address == FromHex32(input)
    IN  IF ~IsOk(address) THEN H(address, d)
        ELSE LET tip == db_get_tip(d, address.val)
             IN  IF ~IsOk(tip) THEN H(tip, d)
                 ELSE H(Ok(IpcResponse("GetTip", id,
                            IpcDelta(NoneVal, tip.val[1].key_type.n,
                                     Some(ToHex(tip.val[2]))))), d)

(* the loop of get_tips stopping at the first failure with what it has *)
RECURSIVE TipsLoop_partial(_, _)
TipsLoop_partial(input, d) ==
    IF input = <<>> THEN Ok(<<>>)
    ELSE LET address == FromHex32(input[1])
         IN  IF ~IsOk(address) THEN Ok(<<>>)
             ELSE LET tip == db_get_tip(d, address.val)
                  IN  IF ~IsOk(tip) THEN Ok(<<>>)
                      ELSE LET delta == IpcDeltaFromDeltaKey(tip.val[1], tip.val[2])
                               rest == TipsLoop_partial(Tail(input), d)
                           IN  IF ~IsOk(delta) THEN Ok(<<>>)
                               ELSE Ok(<<delta.val>> \o rest.val)

RECURSIVE TipsLoop(_, _)
TipsLoop(input, d) ==
    IF input = <<>> THEN Ok(<<>>)
    ELSE LET address == FromHex32(input[1])
         IN  IF ~IsOk(address) THEN address
             ELSE LET tip == db_get_tip(d, address.val)
                  IN  IF ~IsOk(tip) THEN tip
                      ELSE LET delta == IpcDeltaFromDeltaKey(tip.val[1], tip.val[2])
                               rest == TipsLoop(Tail(input), d)
                           IN  IF ~IsOk(delta) THEN delta
                               ELSE IF ~IsOk(rest) THEN rest
                               ELSE Ok(<<delta.val>> \o rest.val)

get_tips(id, input, d) ==
    LET tips == TipsLoop(input, d)
    IN  IF ~IsOk(tips) THEN H(tips, d)
        ELSE H(Ok(IpcResponse("GetTips", id, tips.val)), d)

get_all_tips(id, d) ==
    LET r == db_get_all_tips(d)
        tips == IF IsOk(r) THEN r.val ELSE <<>>
    IN  IF \E i \in 1..Len(tips) : ~IsOk(IpcDeltaFromDeltaKey(tips[i][1], tips[i][2]))
        THEN H(Err("This isn't a delta"), d)
        ELSE H(Ok(IpcResponse("GetAllTips", id,
                    [i \in 1..Len(tips) |->
                        IpcDeltaFromDeltaKey(tips[i][1], tips[i][2]).val])), d)

get_all_addrs(id, d) ==
    LET r == db_get_all_addresses(d)
        addrs == IF IsOk(r) THEN r.val ELSE <<>>
    IN  H(Ok(IpcResponse("GetAllAddrs", id,
                [i \in 1..Len(addrs) |-> ToHex(addrs[i])])), d)

get_delta(id, input, d) ==
    IF ~input.address.some THEN H(Err("Address Missing"), d)
    ELSE LET address == FromHex32(input.address.val)
         IN  IF ~IsOk(address) THEN H(address, d)
             ELSE LET delta == db_get_delta(d, DeltaKey(address.val, Delta(input.key)))
                  IN  IF ~IsOk(delta) THEN H(delta, d)
                      ELSE H(Ok(IpcResponse("GetDelta", id, ToHex(delta.val))), d)

(* the loop of get_deltas pushing nothing for a range without deltas *)
RECURSIVE DeltasLoop_skipping(_, _)
DeltasLoop_skipping(input, d) ==
    IF input = <<>> THEN Ok(<<>>)
    ELSE LET data == input[1]
             address == FromHex32(data.address)
         IN  IF ~IsOk(address) THEN address
             ELSE LET from == DeltaKey(address.val, Delta(data.from))
                      to == DeltaKey(address.val, Delta(data.to))
                      db_res == db_get_deltas(d, from, to)
                      rest == DeltasLoop_skipping(Tail(input), d)
                  IN  IF ~IsOk(db_res) THEN db_res
                      ELSE IF ~IsOk(rest) THEN rest
                      ELSE IF ~db_res.val.some
                      THEN rest
                      ELSE LET found == db_res.val.val
                           IN  Ok([i \in 1..Len(found) |->
                                     IpcDeltaFromDeltaKey(found[i][1], found[i][2]).val]
                                  \o rest.val)

RECURSIVE DeltasLoop(_, _)
DeltasLoop(input, d) ==
    IF input = <<>> THEN Ok(<<>>)
    ELSE LET data == input[1]
             address == FromHex32(data.address)
         IN  IF ~IsOk(address) THEN address
             ELSE LET from == DeltaKey(address.val, Delta(data.from))
                      to == DeltaKey(address.val, Delta(data.to))
                      db_res == db_get_deltas(d, from, to)
                      rest == DeltasLoop(Tail(input), d)
                  IN  IF ~IsOk(db_res) THEN db_res
                      ELSE IF ~IsOk(rest) THEN rest
                      ELSE IF ~db_res.val.some
                      THEN Ok(<<IpcDeltaDefault>> \o rest.val)
                      ELSE LET found == db_res.val.val
                           IN  Ok([i \in 1..Len(found) |->
                                     IpcDeltaFromDeltaKey(found[i][1], found[i][2]).val]
                                  \o rest.val)

get_deltas(id, input, d) ==
    LET results_ == DeltasLoop(input, d)
    IN  IF ~IsOk(results_) THEN H(results_, d)
        ELSE H(Ok(IpcResponse("GetDeltas", id, results_.val)), d)

(* get_contract handing the store's error on instead of defaulting *)
get_contract_propagating(id, input, d) ==
    LET address == FromHex32(input)
    IN  IF ~IsOk(address) THEN H(address, d)
        ELSE LET r == db_get_contract(d, address.val)
             IN  IF ~IsOk(r) THEN H(r, d)
                 ELSE H(Ok(IpcResponse("GetContract", id, ToHex(r.val))), d)

get_contract(id, input, d) ==
    LET address == FromHex32(input)
    IN  IF ~IsOk(address) THEN H(address, d)
        ELSE LET r == db_get_contract(d, address.val)
                 data == IF IsOk(r) THEN r.val ELSE EmptyBytes
             IN  H(Ok(IpcResponse("GetContract", id, ToHex(data))), d)

(* update_new_contract building its key with Stype::Delta(0) *)
update_new_contract_delta_slot(id, address, bytecode, d) ==
    LET address_arr == FromHex32(address)
        code == FromHex(bytecode)
    IN  IF ~IsOk(address_arr) THEN H(address_arr, d)
        ELSE IF ~IsOk(code) THEN H(code, d)
        ELSE LET up == db_force_update(d, DeltaKey(address_arr.val, Delta(0)), code.val)
             IN  IF ~IsOk(up.res) THEN H(up.res, d)
                 ELSE H(Ok(IpcResponse("UpdateNewContract", id,
                             [address |-> address, status |-> 0])), up.db)

update_new_contract(id, address, bytecode, d) ==
    LET address_arr == FromHex32(address)
        code == FromHex(bytecode)
    IN  IF ~IsOk(address_arr) THEN H(address_arr, d)
        ELSE IF ~IsOk(code) THEN H(code, d)
        ELSE LET up == db_force_update(d, DeltaKey(address_arr.val, ByteCode), code.val)
             IN  IF ~IsOk(up.res) THEN H(up.res, d)
                 ELSE H(Ok(IpcResponse("UpdateNewContract", id,
                             [address |-> address, status |-> 0])), up.db)

(* first loop of update_deltas: every item is decoded before any insert *)
RECURSIVE TuplesLoop(_)
TuplesLoop(deltas) ==
    IF deltas = <<>> THEN Ok(<<>>)
    ELSE LET delta == deltas[1]
         IN  IF ~delta.address.some THEN Err("Address Missing")
             ELSE LET address == FromHex32(delta.address.val)
                  IN  IF ~IsOk(address) THEN address
                      ELSE IF ~delta.delta.some THEN Err("Delta Data Missing")
                      ELSE LET data == FromHex(delta.delta.val)
                               rest == TuplesLoop(Tail(deltas))
                           IN  IF ~IsOk(data) THEN data
                               ELSE IF ~IsOk(rest) THEN rest
                               ELSE Ok(<<<<DeltaKey(address.val, Delta(delta.key)),
                                           data.val>>>> \o rest.val)

(* update_deltas writing every tuple over whatever its key holds *)
update_deltas_overwriting(id, deltas, d) ==
    LET tuples == TuplesLoop(deltas)
    IN  IF ~IsOk(tuples) THEN H(tuples, d)
        ELSE LET keys == {tuples.val[i][1] : i \in 1..Len(tuples.val)}
                 ins == db_insert_tuples([k \in (DOMAIN d) \ keys |-> d[k]],
                                         tuples.val)
                 errors == [i \in 1..Len(tuples.val) |->
                              [address |-> ToHex(tuples.val[i][1].hash),
                               key |-> tuples.val[i][1].key_type.n,
                               status |-> IF IsErr(ins.res[i]) THEN 1 ELSE 0]]
             IN  H(Ok(IpcResponse("UpdateDeltas", id,
                        [status |-> 0, errors |-> errors])), ins.db)

(* update_deltas giving up at the first tuple that is refused *)
update_deltas_fail_fast(id, deltas, d) ==
    LET tuples == TuplesLoop(deltas)
    IN  IF ~IsOk(tuples) THEN H(tuples, d)
        ELSE LET all == db_insert_tuples(d, tuples.val)
                 bad == {i \in 1..Len(tuples.val) : IsErr(all.res[i])}
                 stop == IF bad = {} THEN Len(tuples.val) + 1 ELSE SetMin(bad)
                 ins == db_insert_tuples(d, SubSeq(tuples.val, 1, stop - 1))
                 errors == [i \in 1..Len(tuples.val) |->
                              [address |-> ToHex(tuples.val[i][1].hash),
                               key |-> tuples.val[i][1].key_type.n,
                               status |-> IF i >= stop THEN 1 ELSE 0]]
             IN  H(Ok(IpcResponse("UpdateDeltas", id,
                        [status |-> 0, errors |-> errors])), ins.db)

(* the items in front of the first one that does not decode *)
RECURSIVE DecodedPrefix(_)
DecodedPrefix(deltas) ==
    IF deltas = <<>> THEN <<>>
    ELSE LET one == TuplesLoop(<<deltas[1]>>)
         IN  IF ~IsOk(one) THEN <<>>
             ELSE one.val \o DecodedPrefix(Tail(deltas))

(* update_deltas inserting each item as soon as it is decoded *)
update_deltas_item_by_item(id, deltas, d) ==
    LET tuples == TuplesLoop(deltas)
    IN  IF ~IsOk(tuples)
        THEN H(tuples, db_insert_tuples(d, DecodedPrefix(deltas)).db)
        ELSE LET ins == db_insert_tuples(d, tuples.val)
                 errors == [i \in 1..Len(tuples.val) |->
                              [address |-> ToHex(tuples.val[i][1].hash),
                               key |-> tuples.val[i][1].key_type.n,
                               status |-> IF IsErr(ins.res[i]) THEN 1 ELSE 0]]
             IN  H(Ok(IpcResponse("UpdateDeltas", id,
                        [status |-> 0, errors |-> errors])), ins.db)

update_deltas(id, deltas, d) ==
    LET tuples == TuplesLoop(deltas)
    IN  IF ~IsOk(tuples) THEN H(tuples, d)
        ELSE LET ins == db_insert_tuples(d, tuples.val)
                 errors == [i \in 1..Len(tuples.val) |->
                              [address |-> ToHex(tuples.val[i][1].hash),
                               key |-> tuples.val[i][1].key_type.n,
                               status |-> IF IsErr(ins.res[i]) THEN 1 ELSE 0]]
             IN  H(Ok(IpcResponse("UpdateDeltas", id,
                        [status |-> 0, errors |-> errors])), ins.db)

get_dh_user_key(id, user_pubkey, d, env) ==
    LET hex == FromHex(user_pubkey)
    IN  IF ~IsOk(hex) THEN H(Panic, d)
        ELSE IF ~IsOk(CloneFromSlice64(hex.val)) THEN H(Panic, d)
        ELSE IF env = "err" THEN H(Err("external"), d)
        ELSE IF env = "panic" THEN H(Panic, d)
        ELSE H(Ok(IpcResponse("NewTaskEncryptionKey", id,
                    [dh_key |-> ToHex(DhKey), sig |-> ToHex(TaskSignature)])), d)

get_ptt_req(id, addresses, d, env) ==
    IF \E i \in 1..Len(addresses) : ~IsOk(FromHex32(addresses[i]))
    THEN H(FromHex32(addresses[CHOOSE i \in 1..Len(addresses) :
                /\ ~IsOk(FromHex32(addresses[i]))
                /\ \A j \in 1..(i - 1) : IsOk(FromHex32(addresses[j]))]), d)
    ELSE IF env = "err" THEN H(Err("external"), d)
    ELSE H(Ok(IpcResponse("GetPTTRequest", id,
                [request |-> ToHex(PttRequest), sig |-> ToHex(TaskSignature)])), d)

(* the hex fields of an IpcTask decoded in the order the handler names *)
FirstFailure(rs) ==
    IF \A i \in 1..Len(rs) : IsOk(rs[i]) THEN Ok("unit")
    ELSE rs[CHOOSE i \in 1..Len(rs) :
                ~IsOk(rs[i]) /\ \A j \in 1..(i - 1) : IsOk(rs[j])]

PubkeyOf(input) ==
    IF ~IsOk(FromHex(input.user_pubkey)) THEN FromHex(input.user_pubkey)
    ELSE CloneFromSlice64(FromHex(input.user_pubkey).val)

(* deploy_contract filling the output field as well *)
deploy_contract_with_output(id, input, d, env) ==
    IF ~input.pre_code.some THEN H(Panic, d)
    ELSE LET dec == FirstFailure(<<FromHex(input.pre_code.val),
                                   FromHex32(input.address),
                                   FromHex(input.encrypted_args),
                                   FromHex(input.encrypted_fn),
                                   PubkeyOf(input)>>)
         IN  IF ~IsOk(dec) THEN H(dec, d)
             ELSE IF env = "err" THEN H(Err("external"), d)
             ELSE IF env = "panic" THEN H(Panic, d)
             ELSE H(Ok(IpcResponse("DeploySecretContract", id,
                    [exe_code |-> Some(ToHex(TaskOutput)),
                     pre_code_hash |-> Some(ToHex(Keccak256(FromHex(input.pre_code.val).val))),
                     used_gas |-> 7,
                     output |-> Some(ToHex(TaskOutput)),
                     delta |-> ToHex(TaskDelta),
                     signature |-> ToHex(TaskSignature)])), d)

deploy_contract(id, input, d, env) ==
    IF ~input.pre_code.some THEN H(Panic, d)
    ELSE LET dec == FirstFailure(<<FromHex(input.pre_code.val),
                                   FromHex32(input.address),
                                   FromHex(input.encrypted_args),
                                   FromHex(input.encrypted_fn),
                                   PubkeyOf(input)>>)
         IN  IF ~IsOk(dec) THEN H(dec, d)
             ELSE IF env = "err" THEN H(Err("external"), d)
             ELSE IF env = "panic" THEN H(Panic, d)
             ELSE H(Ok(IpcResponse("DeploySecretContract", id,
                    [exe_code |-> Some(ToHex(TaskOutput)),
                     pre_code_hash |-> Some(ToHex(Keccak256(FromHex(input.pre_code.val).val))),
                     used_gas |-> 7,
                     output |-> NoneVal,
                     delta |-> ToHex(TaskDelta),
                     signature |-> ToHex(TaskSignature)])), d)

compute_task(id, input, d, env) ==
    LET dec == FirstFailure(<<FromHex(input.encrypted_args),
                              FromHex32(input.address),
                              FromHex(input.encrypted_fn),
                              PubkeyOf(input)>>)
    IN  IF ~IsOk(dec) THEN H(dec, d)
        ELSE LET bytecode == db_get_contract(d, FromHex32(input.address).val)
             IN  IF ~IsOk(bytecode) THEN H(bytecode, d)
                 ELSE IF env = "err" THEN H(Err("external"), d)
                 ELSE H(Ok(IpcResponse("ComputeTask", id,
                        [exe_code |-> NoneVal,
                         pre_code_hash |-> NoneVal,
                         used_gas |-> 7,
                         output |-> Some(ToHex(TaskOutput)),
                         delta |-> ToHex(TaskDelta),
                         signature |-> ToHex(TaskSignature)])), d)

----------------------------------------------------------------------------
(* Request messages                                                        *)

Ids == {1, 2}

Addr1 == Bytes(ADDR_LEN, 1)

Code1 == Bytes(3, 31)

Data1 == Bytes(3, 41)

UserKey == Bytes(PUBKEY_LEN, 51)

(* address fields: a well-formed address, hex of the wrong length, no hex *)
AddrInputs == {ToHex(Addr1), ToHex(Code1), BadHex}

(* user public keys: well-formed, hex of the wrong length, no hex *)
PubkeyInputs == {ToHex(UserKey), ToHex(Code1), BadHex}

AddrLists == {<<>>, <<ToHex(Addr1)>>, <<ToHex(Addr1), BadHex>>}

IpcDeltaInputs ==
    {IpcDelta(NoneVal, 0, NoneVal),
     IpcDelta(Some(BadHex), 0, NoneVal),
     IpcDelta(Some(ToHex(Addr1)), 0, NoneVal),
     IpcDelta(Some(ToHex(Addr1)), 1, NoneVal)}

GetDeltasItem(a, f, t) == [address |-> a, from |-> f, to |-> t]

IpcGetDeltasLists ==
    {<<>>,
     <<GetDeltasItem(ToHex(Addr1), 0, 2)>>,
     <<GetDeltasItem(ToHex(Addr1), 1, 2), GetDeltasItem(ToHex(Addr1), 0, 1)>>,
     <<GetDeltasItem(ToHex(Addr1), 0, 1), GetDeltasItem(BadHex, 0, 1)>>}

NewDelta(k) == IpcDelta(Some(ToHex(Addr1)), k, Some(ToHex(Data1)))

UpdateDeltasLists ==
    {<<>>,
     <<NewDelta(0)>>,
     <<NewDelta(1)>>,
     <<NewDelta(0), NewDelta(0), NewDelta(1)>>,
     <<NewDelta(0), IpcDelta(NoneVal, 1, Some(ToHex(Data1)))>>,
     <<NewDelta(1), IpcDelta(Some(ToHex(Addr1)), 0, NoneVal)>>,
     <<IpcDelta(Some(ToHex(Addr1)), 0, Some(BadHex))>>}

IpcTask(pre_code, address, user_pubkey) ==
    [pre_code |-> pre_code, address |-> address, encrypted_args |-> ToHex(Data1),
     encrypted_fn |-> ToHex(Data1), user_pubkey |-> user_pubkey, gas_limit |-> 100]

IpcTaskInputs ==
    {IpcTask(Some(ToHex(Code1)), ToHex(Addr1), ToHex(UserKey)),
     IpcTask(NoneVal, ToHex(Addr1), ToHex(UserKey)),
     IpcTask(Some(ToHex(Code1)), BadHex, ToHex(UserKey)),
     IpcTask(Some(ToHex(Code1)), ToHex(Addr1), ToHex(Code1)),
     IpcTask(Some(ToHex(Code1)), ToHex(Addr1), BadHex)}

Req(op, id, input) == [op |-> op, id |-> id, input |-> input]

(* every input with the first id; with the other ids the requests without
   input and one well-formed request to read and to write the store *)
Requests ==
    UNION {
      IF id = 1
      THEN {Req("GetRegistrationParams", id, <<>>),
            Req("IdentityChallenge", id, "nonce"),
            Req("GetAllTips", id, <<>>),
            Req("GetAllAddrs", id, <<>>)}
             \cup {Req("GetTip", id, a) : a \in AddrInputs}
             \cup {Req("GetTips", id, l) : l \in AddrLists}
             \cup {Req("GetDelta", id, i) : i \in IpcDeltaInputs}
             \cup {Req("GetDeltas", id, l) : l \in IpcGetDeltasLists}
             \cup {Req("GetContract", id, a) : a \in AddrInputs}
             \cup {Req("UpdateNewContract", id, [address |-> a, bytecode |-> b]) :
                       a \in {ToHex(Addr1), BadHex}, b \in {ToHex(Code1), BadHex}}
             \cup {Req("UpdateDeltas", id, l) : l \in UpdateDeltasLists}
             \cup {Req("NewTaskEncryptionKey", id, k) : k \in PubkeyInputs}
             \cup {Req("GetPTTRequest", id, l) : l \in AddrLists}
             \cup {Req("DeploySecretContract", id, t) : t \in IpcTaskInputs}
             \cup {Req("ComputeTask", id, t) : t \in IpcTaskInputs}
      ELSE {Req("GetRegistrationParams", id, <<>>),
            Req("IdentityChallenge", id, "nonce"),
            Req("GetAllTips", id, <<>>),
            Req("GetTip", id, ToHex(Addr1)),
            Req("UpdateDeltas", id, <<NewDelta(0)>>)}
      : id \in Ids}

(* outcomes of the calls a handler makes outside this layer *)
EnvFor(op) ==
    CASE op \in {"GetRegistrationParams", "NewTaskEncryptionKey",
                 "DeploySecretContract"} -> {"ok", "err", "panic"}
      [] op \in {"GetPTTRequest", "ComputeTask"} -> {"ok", "err"}
      [] OTHER -> {"ok"}

(* the match of handle_message: one handler per operation *)
Route(msg, d, env) ==
    CASE msg.op = "GetRegistrationParams" -> get_registration_params(msg.id, d, env)
      [] msg.op = "IdentityChallenge" -> identity_challange(msg.id, msg.input, d)
      [] msg.op = "GetTip" -> get_tip(msg.id, msg.input, d)
      [] msg.op = "GetTips" -> get_tips(msg.id, msg.input, d)
      [] msg.op = "GetAllTips" -> get_all_tips(msg.id, d)
      [] msg.op = "GetAllAddrs" -> get_all_addrs(msg.id, d)
      [] msg.op = "GetDelta" -> get_delta(msg.id, msg.input, d)
      [] msg.op = "GetDeltas" -> get_deltas(msg.id, msg.input, d)
      [] msg.op = "GetContract" -> get_contract(msg.id, msg.input, d)
      [] msg.op = "UpdateNewContract" ->
            update_new_contract(msg.id, msg.input.address, msg.input.bytecode, d)
      [] msg.op = "UpdateDeltas" -> update_deltas(msg.id, msg.input, d)
      [] msg.op = "NewTaskEncryptionKey" -> get_dh_user_key(msg.id, msg.input, d, env)
      [] msg.op = "DeploySecretContract" -> deploy_contract(msg.id, msg.input, d, env)
      [] msg.op = "ComputeTask" -> compute_task(msg.id, msg.input, d, env)
      [] msg.op = "GetPTTRequest" -> get_ptt_req(msg.id, msg.input, d, env)

----------------------------------------------------------------------------
(* handle_message: the loop over the messages of one request batch         *)

DispatchInit ==
    /\ db = EmptyMap
    /\ pc = "idle"
    /\ nreq = 0
    /\ request = <<>>
    /\ results = <<>>
    /\ response = <<>>

(* what is recorded of a handler's result: the message of a success, the
   kind of a failure *)
Outcome(r) == IF IsOk(r) THEN r ELSE [kind |-> r.kind, val |-> DefaultMessage]

(* a batch of n messages arrives; response = Multipart::new() *)
Receive ==
    /\ pc \in {"idle", "returned"}
    /\ \E n \in 0..MaxBatch : nreq' = n
    /\ pc' = "handling"
    /\ request' = <<>>
    /\ results' = <<>>
    /\ response' = <<>>
    /\ UNCHANGED db

(* one iteration of the loop: the next message of the batch is routed to
   its handler and the handler's result is pushed, or the handler panics
   and the panic unwinds through handle_message *)
HandleNext ==
    /\ pc = "handling"
    /\ Len(request) < nreq
    /\ \E msg \in Requests :
         \E env \in EnvFor(msg.op) :
            \E h \in {Route(msg, db, env)} :
                /\ request' = Append(request, [op |-> msg.op, id |-> msg.id])
                /\ results' = Append(results, Outcome(h.res))
                /\ db' = h.db
                /\ IF IsPanic(h.res)
                   THEN /\ pc' = "panicked"
                        /\ UNCHANGED response
                   ELSE /\ response' = Append(response, UnwrapOrDefault(h.res))
                        /\ UNCHANGED pc
    /\ UNCHANGED nreq

(* the loop is over: the response batch is returned *)
Return ==
    /\ pc = "handling"
    /\ Len(request) = nreq
    /\ pc' = "returned"
    /\ UNCHANGED <<db, nreq, request, results, response>>

----------------------------------------------------------------------------
(* wasm::deploy: the deployment call across the enclave boundary           *)
(* (enigma-core/app/src/wasm_u/wasm.rs)                                    *)

(* wpc: position inside deploy; bytecode, deploy_bytecode, out, retval,
   output_len, result: the locals of deploy; ecalls: the boundary calls made
   by the current invocation; deployed: what deploy handed to its caller *)
VARIABLES wpc, bytecode, deploy_bytecode, out, retval, output_len, result,
          ecalls, deployed

wvars == <<wpc, bytecode, deploy_bytecode, out, retval, output_len, result,
           ecalls, deployed>>

MAX_EVM_RESULT == 100000

SgxStatuses == {"SGX_SUCCESS", "SGX_ERROR_UNEXPECTED", "SGX_ERROR_ENCLAVE_LOST"}

(* a Wasm contract as handed to deploy: whether it deserializes, whether
   pwasm_utils::build accepts it, whether build yields a constructor module,
   whether the built module serializes *)
WasmCode(wellformed, buildable, ctor, serializable) ==
    [wellformed |-> wellformed, buildable |-> buildable, ctor |-> ctor,
     serializable |-> serializable, bytes |-> Bytes(8, 61)]

WasmCodes ==
    {WasmCode(FALSE, FALSE, FALSE, FALSE),
     WasmCode(TRUE, FALSE, FALSE, FALSE),
     WasmCode(TRUE, TRUE, TRUE, FALSE),
     WasmCode(TRUE, TRUE, TRUE, TRUE),
     WasmCode(TRUE, TRUE, FALSE, TRUE)}

(* output lengths the enclave may report *)
OutputLens == {0, 3, MAX_EVM_RESULT, MAX_EVM_RESULT + 1}

(* parity_wasm::deserialize_buffer *)
deserialize_buffer(wasm_code) ==
    IF wasm_code.wellformed THEN Ok(wasm_code) ELSE Err("Decoding")

(* pwasm_utils::build: the packed module and, possibly, a constructor module *)
build(module) ==
    IF ~module.buildable THEN Err("Build")
    ELSE Ok([module |-> [serializable |-> module.serializable,
                         bytes |-> Bytes(module.bytes.len - 1, module.bytes.v + 1)],
             ctor_module |->
                IF module.ctor
                THEN Some([serializable |-> module.serializable,
                           bytes |-> Bytes(module.bytes.len + 2, module.bytes.v + 2)])
                ELSE NoneVal])

(* parity_wasm::serialize *)
serialize(module) ==
    IF module.serializable THEN Ok(module.bytes) ELSE Err("Encoding")

build_constructor(wasm_code) ==
    LET module == deserialize_buffer(wasm_code)
    IN  IF ~IsOk(module) THEN module
        ELSE LET built == build(module.val)
             IN  IF ~IsOk(built) THEN Panic
                 ELSE LET res == IF built.val.ctor_module.some
                                 THEN serialize(built.val.ctor_module.val)
                                 ELSE serialize(built.val.module)
                      IN  IF IsOk(res) THEN res ELSE Panic

(* slice[0..output_len]: panics when the range ends beyond the slice *)
Slice(b, n) == IF n > b.len THEN Panic ELSE Ok(Bytes(n, b.v))

Pending == [kind |-> "Pending", val |-> EmptyBytes]

DeployInit ==
    /\ wpc = "idle"
    /\ bytecode = WasmCode(FALSE, FALSE, FALSE, FALSE)
    /\ deploy_bytecode = EmptyBytes
    /\ out = EmptyBytes
    /\ retval = "SGX_SUCCESS"
    /\ output_len = 0
    /\ result = "SGX_SUCCESS"
    /\ ecalls = <<>>
    /\ deployed = Pending

(* deploy(eid, bytecode) is called *)
DeployCall ==
    /\ wpc \in {"idle", "done"}
    /\ \E code \in WasmCodes : bytecode' = code
    /\ wpc' = "build"
    /\ deploy_bytecode' = EmptyBytes
    /\ out' = EmptyBytes
    /\ retval' = "SGX_SUCCESS"
    /\ output_len' = 0
    /\ result' = "SGX_SUCCESS"
    /\ ecalls' = <<>>
    /\ deployed' = Pending

(* lines 75-79 with every failure of build_constructor taken for success *)
DeployBuild_lenient ==
    /\ wpc = "build"
    /\ \E r \in {build_constructor(bytecode)} :
          /\ deploy_bytecode' = IF IsOk(r) THEN r.val ELSE bytecode.bytes
          /\ out' = Bytes(MAX_EVM_RESULT, 0)
          /\ wpc' = "ecall"
          /\ UNCHANGED deployed
    /\ UNCHANGED <<bytecode, retval, output_len, result, ecalls>>

(* lines 75-79: build_constructor(&bytecode)?, then the locals of the
   boundary call are set up *)
DeployBuild ==
    /\ wpc = "build"
    /\ \E r \in {build_constructor(bytecode)} :
          IF IsOk(r)
          THEN /\ deploy_bytecode' = r.val
               /\ out' = Bytes(MAX_EVM_RESULT, 0)
               /\ wpc' = "ecall"
               /\ UNCHANGED deployed
          ELSE /\ deployed' = r
               /\ wpc' = "done"
               /\ UNCHANGED <<deploy_bytecode, out>>
    /\ UNCHANGED <<bytecode, retval, output_len, result, ecalls>>

(* lines 81-88: ecall_deploy; the enclave side decides the status of the
   call, retval, the bytes written to out and output_len *)
DeployEcall ==
    /\ wpc = "ecall"
    /\ \E st \in SgxStatuses, rv \in SgxStatuses, n \in OutputLens, w \in {0, 7} :
          /\ result' = st
          /\ retval' = rv
          /\ output_len' = n
          /\ out' = Bytes(MAX_EVM_RESULT, w)
    /\ ecalls' = Append(ecalls, deploy_bytecode)
    /\ wpc' = "return"
    /\ UNCHANGED <<bytecode, deploy_bytecode, deployed>>

(* lines 89-91: part = slice[0..output_len]; Ok(part).  Neither the status
   of the call nor retval is looked at. *)
DeployResult(res, rv, o, n) == Slice(o, n)

DeployReturn ==
    /\ wpc = "return"
    /\ deployed' = DeployResult(result, retval, out, output_len)
    /\ wpc' = "done"
    /\ UNCHANGED <<bytecode, deploy_bytecode, out, retval, output_len, result,
                   ecalls>>

----------------------------------------------------------------------------
(* The store handlers, one request at a time, over a richer set of inputs  *)

(* last: the store request served last and the result of its handler *)
VARIABLES last

svars == <<last>>

(* delta indexes 0..MaxIndex *)
MaxIndex == 2

Addr2 == Bytes(ADDR_LEN, 2)

Code2 == Bytes(3, 32)

Data2 == Bytes(3, 42)

StoreAddrs == {Addr1, Addr2}

StoreDelta(a, k, x) == IpcDelta(Some(ToHex(a)), k, Some(ToHex(x)))

(* UpdateDeltas inputs: single items, a batch with a repeated key in the
   middle, a batch out of index order, batches with an item that does not
   decode *)
StoreUpdateLists ==
    {<<>>}
      \cup {<<StoreDelta(Addr1, k, Data1)>> : k \in 0..MaxIndex}
      \cup {<<StoreDelta(Addr1, 0, Data2)>>}
      \cup {<<StoreDelta(Addr2, k, Data1)>> : k \in 0..1}
      \cup {<<StoreDelta(Addr1, 0, Data1), StoreDelta(Addr1, 0, Data2),
              StoreDelta(Addr2, 0, Data1)>>,
            <<StoreDelta(Addr2, 1, Data1), StoreDelta(Addr1, 1, Data1),
              StoreDelta(Addr1, 0, Data2)>>,
            <<StoreDelta(Addr1, 0, Data1), IpcDelta(NoneVal, 1, Some(ToHex(Data1)))>>,
            <<StoreDelta(Addr2, 0, Data1), IpcDelta(Some(ToHex(Addr1)), 0, NoneVal)>>,
            <<StoreDelta(Addr2, 1, Data1), IpcDelta(Some(ToHex(Addr1)), 1, Some(BadHex))>>}

StoreAddrInputs == {ToHex(Addr1), ToHex(Addr2), ToHex(Code1), BadHex}

StoreGetDeltasLists ==
    {<<>>}
      \cup {<<GetDeltasItem(ToHex(a), 0, MaxIndex + 1)>> : a \in StoreAddrs}
      \cup {<<GetDeltasItem(ToHex(Addr1), f, t)>> :
                f \in 0..MaxIndex, t \in 1..(MaxIndex + 1)}
      \cup {<<GetDeltasItem(ToHex(Addr1), 0, 1), GetDeltasItem(ToHex(Addr2), 0, 2),
              GetDeltasItem(ToHex(Addr1), 1, 3)>>,
            <<GetDeltasItem(ToHex(Addr1), 0, 1), GetDeltasItem(BadHex, 0, 1)>>}

StoreRequests ==
    {Req("GetAllTips", 1, <<>>), Req("GetAllAddrs", 1, <<>>)}
      \cup {Req("GetTip", 1, a) : a \in StoreAddrInputs}
      \cup {Req("GetTips", 1, l) :
                l \in {<<>>, <<ToHex(Addr1)>>, <<ToHex(Addr1), ToHex(Addr2)>>,
                       <<ToHex(Addr2), BadHex>>}}
      \cup {Req("GetDelta", 1, IpcDelta(Some(ToHex(Addr1)), k, NoneVal)) :
                k \in 0..MaxIndex}
      \cup {Req("GetDeltas", 1, l) : l \in StoreGetDeltasLists}
      \cup {Req("GetContract", 1, a) : a \in StoreAddrInputs}
      \cup {Req("UpdateNewContract", 1, [address |-> a, bytecode |-> b]) :
                a \in {ToHex(Addr1), BadHex},
                b \in {ToHex(Code1), ToHex(Code2), BadHex}}
      \cup {Req("UpdateDeltas", 1, l) : l \in StoreUpdateLists}

Served(msg, res) == [msg |-> msg, res |-> res]

StoreInit == last = Served(Req("none", 1, <<>>), Ok(DefaultMessage))

(* handle_message on a batch of one store request: the handler runs on the
   store and hands back its result *)
Serve ==
    /\ \E msg \in StoreRequests :
         \E h \in {Route(msg, db, "ok")} :
            /\ db' = h.db
            /\ last' = Served(msg, h.res)
    /\ UNCHANGED <<pc, nreq, request, results, response>>

----------------------------------------------------------------------------
(* The DATABASE mutex: store handlers running on several threads           *)

(* lock: the thread holding DATABASE (NoThread: free); tpc, treq, tloc,
   tres: each thread's position in its handler, its request, its locals and
   the result it returned last; seen: the store states that existed while
   the thread's current call was running *)
VARIABLES lock, tpc, treq, tloc, tres, seen

cvars == <<lock, tpc, treq, tloc, tres, seen>>

Threads == {1, 2}

NoThread == 0

(* batches of one delta for each of two addresses, a batch that does not
   decode, and readers taking the lock once or once per address *)
ConcRequests ==
    {Req("UpdateDeltas", 1, <<StoreDelta(Addr1, k, Data1), StoreDelta(Addr2, k, Data1)>>) :
        k \in 0..1}
      \cup {Req("UpdateDeltas", 1,
                <<StoreDelta(Addr1, 0, Data1), IpcDelta(NoneVal, 0, Some(ToHex(Data1)))>>)}
      \cup {Req("GetTips", 1, l) :
                l \in {<<ToHex(Addr1), ToHex(Addr2)>>, <<ToHex(Addr2), BadHex>>}}
      \cup {Req("GetAllTips", 1, <<>>)}

(* locals of a handler: the results pushed so far, the decoded value the
   next store call takes, the value the last store call returned *)
Locals(acc, cur, got) == [acc |-> acc, cur |-> cur, got |-> got]

(* where the code between two store calls leaves the handler: at the next
   lock_expect, or returned *)
WantLock(loc) == [pc |-> "lock", loc |-> loc, res |-> NoneVal]

Done(res) == [pc |-> "idle", loc |-> Locals(<<>>, <<>>, NoneVal), res |-> Some(res)]

(* get_tips between two DATABASE calls: the tip just read is pushed, the
   next address is decoded *)
get_tips_local(id, input, loc) ==
    IF loc.got.some /\ ~IsOk(loc.got.val) THEN Done(loc.got.val)
    ELSE LET delta == IF loc.got.some
                      THEN IpcDeltaFromDeltaKey(loc.got.val.val[1], loc.got.val.val[2])
                      ELSE Ok(IpcDeltaDefault)
         IN  IF ~IsOk(delta) THEN Done(delta)
             ELSE LET acc == IF loc.got.some THEN Append(loc.acc, delta.val)
                             ELSE loc.acc
                  IN  IF Len(acc) = Len(input)
                      THEN Done(Ok(IpcResponse("GetTips", id, acc)))
                      ELSE LET address == FromHex32(input[Len(acc) + 1])
                           IN  IF ~IsOk(address) THEN Done(address)
                               ELSE WantLock(Locals(acc, address.val, NoneVal))

(* update_deltas before and after its DATABASE call *)
update_deltas_local(id, deltas, loc) ==
    IF ~loc.got.some
    THEN LET tuples == TuplesLoop(deltas)
         IN  IF ~IsOk(tuples) THEN Done(tuples)
             ELSE WantLock(Locals(<<>>, tuples.val, NoneVal))
    ELSE LET errors == [i \in 1..Len(loc.cur) |->
                          [address |-> ToHex(loc.cur[i][1].hash),
                           key |-> loc.cur[i][1].key_type.n,
                           status |-> IF IsErr(loc.got.val[i]) THEN 1 ELSE 0]]
         IN  Done(Ok(IpcResponse("UpdateDeltas", id,
                        [status |-> 0, errors |-> errors])))

(* get_all_tips before and after its DATABASE call *)
get_all_tips_local(id, loc) ==
    IF ~loc.got.some THEN WantLock(loc)
    ELSE LET tips == IF IsOk(loc.got.val) THEN loc.got.val.val ELSE <<>>
         IN  IF \E i \in 1..Len(tips) :
                    ~IsOk(IpcDeltaFromDeltaKey(tips[i][1], tips[i][2]))
             THEN Done(Err("This isn't a delta"))
             ELSE Done(Ok(IpcResponse("GetAllTips", id,
                            [i \in 1..Len(tips) |->
                                IpcDeltaFromDeltaKey(tips[i][1], tips[i][2]).val])))

LocalStep(msg, loc) ==
    IF msg.op = "GetTips" THEN get_tips_local(msg.id, msg.input, loc)
    ELSE IF msg.op = "UpdateDeltas" THEN update_deltas_local(msg.id, msg.input, loc)
    ELSE get_all_tips_local(msg.id, loc)

(* the call made on the guard: DATABASE.lock_expect(..).<call>(..) *)
StoreCall(msg, loc, d) ==
    IF msg.op = "GetTips" THEN [got |-> db_get_tip(d, loc.cur), db |-> d]
    ELSE IF msg.op = "UpdateDeltas"
    THEN LET ins == db_insert_tuples(d, loc.cur)
         IN  [got |-> ins.res, db |-> ins.db]
    ELSE [got |-> db_get_all_tips(d), db |-> d]

Running == {t \in Threads : tpc[t] # "idle"}

ConcInit ==
    /\ lock = NoThread
    /\ tpc = [t \in Threads |-> "idle"]
    /\ treq = [t \in Threads |-> Req("none", 1, <<>>)]
    /\ tloc = [t \in Threads |-> Locals(<<>>, <<>>, NoneVal)]
    /\ tres = [t \in Threads |-> NoneVal]
    /\ seen = [t \in Threads |-> {}]

(* a thread enters a handler *)
ThreadCall(t) ==
    /\ tpc[t] = "idle"
    /\ \E msg \in ConcRequests : treq' = [treq EXCEPT ![t] = msg]
    /\ tpc' = [tpc EXCEPT ![t] = "run"]
    /\ tloc' = [tloc EXCEPT ![t] = Locals(<<>>, <<>>, NoneVal)]
    /\ tres' = [tres EXCEPT ![t] = NoneVal]
    /\ seen' = [seen EXCEPT ![t] = {db}]
    /\ UNCHANGED <<lock, db>>

(* the handler's code up to its next lock_expect or its return *)
ThreadRun(t) ==
    /\ tpc[t] = "run"
    /\ \E n \in {LocalStep(treq[t], tloc[t])} :
          /\ tpc' = [tpc EXCEPT ![t] = n.pc]
          /\ tloc' = [tloc EXCEPT ![t] = n.loc]
          /\ tres' = [tres EXCEPT ![t] = n.res]
          /\ seen' = [seen EXCEPT ![t] = IF n.pc = "idle" THEN {} ELSE @]
    /\ UNCHANGED <<lock, treq, db>>

(* lock_expect: blocks until the mutex is free *)
ThreadLock(t) ==
    /\ tpc[t] = "lock"
    /\ lock = NoThread
    /\ lock' = t
    /\ tpc' = [tpc EXCEPT ![t] = "locked"]
    /\ UNCHANGED <<treq, tloc, tres, seen, db>>

(* the store call on the guard *)
ThreadAccess(t) ==
    /\ tpc[t] = "locked"
    /\ \E c \in {StoreCall(treq[t], tloc[t], db)} :
          /\ db' = c.db
          /\ tloc' = [tloc EXCEPT ![t].got = Some(c.got)]
          /\ seen' = [u \in Threads |->
                        IF u \in Running THEN seen[u] \cup {c.db} ELSE seen[u]]
    /\ tpc' = [tpc EXCEPT ![t] = "unlock"]
    /\ UNCHANGED <<lock, treq, tres>>

(* the temporary guard is dropped at the end of the statement *)
ThreadUnlock(t) ==
    /\ tpc[t] = "unlock"
    /\ lock' = NoThread
    /\ tpc' = [tpc EXCEPT ![t] = "run"]
    /\ UNCHANGED <<treq, tloc, tres, seen, db>>

----------------------------------------------------------------------------
(* get_registration_params, call by call                                   *)

(* apc: position in the handler; aid: the id of the request; attempts: the
   quote attempts made for it; ares: what the handler returned *)
VARIABLES apc, aid, attempts, ares

avars == <<apc, aid, attempts, ares>>

(* the retry budget handed to retry_quote *)
QUOTE_RETRIES == 18

(* the failure::Error a call of the handler returns, and the panic of its
   assertion *)
RegErr(e) == Err([err |-> e])

RegPanic == [kind |-> "Panic", val |-> [err |-> "assertion failed"]]

(* equote_tools::retry_quote, one attempt: a quote ends the loop, a failed
   attempt is counted and the loop ends with an error after `times` of them *)
retry_quote(n, times, ok) ==
    IF ok THEN [pc |-> "report", attempts |-> n + 1, res |-> NoneVal]
    ELSE IF n + 1 < times THEN [pc |-> "quote", attempts |-> n + 1, res |-> NoneVal]
    ELSE [pc |-> "idle", attempts |-> n + 1, res |-> Some(RegErr("QuoteErr"))]

RegInit ==
    /\ apc = "idle"
    /\ aid = 1
    /\ attempts = 0
    /\ ares = NoneVal

RegCall ==
    /\ apc = "idle"
    /\ \E id \in Ids : aid' = id
    /\ apc' = "signing"
    /\ attempts' = 0
    /\ ares' = NoneVal

(* equote::get_register_signing_address(eid)? *)
RegSigningAddress ==
    /\ apc = "signing"
    /\ \E ok \in BOOLEAN :
          IF ok THEN apc' = "quote" /\ ares' = ares
          ELSE apc' = "idle" /\ ares' = Some(RegErr("signing_address"))
    /\ UNCHANGED <<aid, attempts>>

(* the handler with a budget one larger *)
RegQuote_one_more ==
    /\ apc = "quote"
    /\ \E ok \in BOOLEAN :
          \E n \in {retry_quote(attempts, QUOTE_RETRIES + 1, ok)} :
             /\ apc' = n.pc
             /\ attempts' = n.attempts
             /\ ares' = n.res
    /\ UNCHANGED aid

(* equote_tools::retry_quote(eid, &SPID, 18)?, one attempt per step *)
RegQuote ==
    /\ apc = "quote"
    /\ \E ok \in BOOLEAN :
          \E n \in {retry_quote(attempts, QUOTE_RETRIES, ok)} :
             /\ apc' = n.pc
             /\ attempts' = n.attempts
             /\ ares' = n.res
    /\ UNCHANGED aid

(* service.get_report(&enc_quote)? and response.get_quote()? *)
RegReport ==
    /\ apc = "report"
    /\ \E outcome \in {"ok", "get_report", "get_quote"} :
          IF outcome = "ok" THEN apc' = "check" /\ ares' = ares
          ELSE apc' = "idle" /\ ares' = Some(RegErr(outcome))
    /\ UNCHANGED <<aid, attempts>>

(* assert_eq!(report_data, sigining_key), then the response *)
RegCheck ==
    /\ apc = "check"
    /\ \E same \in BOOLEAN :
          ares' = IF same
                  THEN Some(Ok(IpcResponse("GetRegistrationParams", aid,
                            [sigining_key |-> SigningKey, report |-> ToHex(Report),
                             signature |-> ToHex(TaskSignature)])))
                  ELSE Some(RegPanic)
    /\ apc' = "idle"
    /\ UNCHANGED <<aid, attempts>>

----------------------------------------------------------------------------
(* The EPOCH mutex: ecall_generate_epoch_seed_internal on several threads  *)

(* glock: the thread holding EPOCH (NoThread: free); gpc, gloc, gret: each
   thread's position in the call, the epoch and nonce it read, and what the
   call returned last *)
VARIABLES glock, gpc, gloc, gret

gvars == <<glock, gpc, gloc, gret>>

GenLocals(epoch, nonce) == [epoch |-> epoch, nonce |-> nonce]

GenInit ==
    /\ glock = NoThread
    /\ gpc = [t \in Threads |-> "idle"]
    /\ gloc = [t \in Threads |-> GenLocals(NoneVal, INIT_NONCE)]
    /\ gret = [t \in Threads |-> NoneVal]

(* the ecall is entered *)
GenCall(t) ==
    /\ gpc[t] = "idle"
    /\ gpc' = [gpc EXCEPT ![t] = "lock"]
    /\ gret' = [gret EXCEPT ![t] = NoneVal]
    /\ UNCHANGED <<glock, gloc, epochs>>

(* let mut guard = EPOCH.lock_expect("Epoch") *)
GenLock(t) ==
    /\ gpc[t] = "lock"
    /\ glock = NoThread
    /\ glock' = t
    /\ gpc' = [gpc EXCEPT ![t] = "locked"]
    /\ UNCHANGED <<gloc, gret, epochs>>

(* the read of the current epoch, with the guard given up after it *)
GenRead_unguarded(t) ==
    /\ gpc[t] = "locked"
    /\ \E epoch \in {get_epoch(epochs, NoneVal).val} :
          /\ NextNonce(epochs, epoch) <= MaxNonce
          /\ gloc' = [gloc EXCEPT ![t] = GenLocals(epoch, NextNonce(epochs, epoch))]
    /\ glock' = NoThread
    /\ gpc' = [gpc EXCEPT ![t] = "insert"]
    /\ UNCHANGED <<gret, epochs>>

(* get_epoch(&guard, None)? and the nonce after the maximum one *)
GenRead(t) ==
    /\ gpc[t] = "locked"
    /\ \E epoch \in {get_epoch(epochs, NoneVal).val} :
          /\ NextNonce(epochs, epoch) <= MaxNonce
          /\ gloc' = [gloc EXCEPT ![t] = GenLocals(epoch, NextNonce(epochs, epoch))]
    /\ gpc' = [gpc EXCEPT ![t] = "insert"]
    /\ UNCHANGED <<glock, gret, epochs>>

(* rsgx_read_rand, sign, and guard.insert(nonce, new_epoch) *)
GenInsert(t) ==
    /\ gpc[t] = "insert"
    /\ \E rand_ok \in BOOLEAN, sign_ok \in BOOLEAN, seed \in Seeds :
          IF ~rand_ok \/ ~sign_ok
          THEN /\ gret' = [gret EXCEPT ![t] = Some(Err("sgx"))]
               /\ UNCHANGED epochs
          ELSE \E ins \in {MapInsert(epochs, gloc[t].nonce,
                              Epoch(seed, NoneVal, NewEpochHash(gloc[t].epoch)))} :
                  /\ epochs' = ins.map
                  /\ gret' = [gret EXCEPT ![t] =
                                Some(StoreResult(ins.old, gloc[t].nonce))]
    /\ gpc' = [gpc EXCEPT ![t] = "unlock"]
    /\ UNCHANGED <<glock, gloc>>

(* the guard is dropped when the function returns *)
GenUnlock(t) ==
    /\ gpc[t] = "unlock"
    /\ glock' = NoThread
    /\ gpc' = [gpc EXCEPT ![t] = "idle"]
    /\ UNCHANGED <<gloc, gret, epochs>>

----------------------------------------------------------------------------
(* compute_task, statement by statement, with the calls it makes on the
   enclave                                                                 *)

(* kpc: position in the handler; kinput: the IpcTask of the request; kcode:
   the bytecode read from the store; kcalls: the wasm::execute calls made
   for the request; kres: what the handler returned *)
VARIABLES kpc, kinput, kcode, kcalls, kres

kvars == <<kpc, kinput, kcode, kcalls, kres>>

(* tasks with and without bytes of their own, for an address that gets
   bytecode, for one that never does, and with fields that do not decode *)
ComputeInputs ==
    {IpcTask(c, a, ToHex(UserKey)) :
        c \in {NoneVal, Some(ToHex(Code1)), Some(ToHex(Code2))},
        a \in {ToHex(Addr1), ToHex(Addr2)}}
      \cup {IpcTask(Some(ToHex(Code1)), BadHex, ToHex(UserKey)),
            IpcTask(Some(ToHex(Code1)), ToHex(Addr1), ToHex(Code1))}

(* the arguments of wasm::execute *)
ExecuteArgs(code, input) ==
    [bytecode |-> code,
     callable |-> FromHex(input.encrypted_fn).val,
     args |-> FromHex(input.encrypted_args).val,
     user_pubkey |-> PubkeyOf(input).val,
     address |-> FromHex32(input.address).val,
     gas_limit |-> input.gas_limit]

ComputeInit ==
    /\ kpc = "idle"
    /\ kinput = IpcTask(NoneVal, ToHex(Addr1), ToHex(UserKey))
    /\ kcode = EmptyBytes
    /\ kcalls = <<>>
    /\ kres = Outcome(Ok(DefaultMessage))

(* an UpdateNewContract message served between two ComputeTask messages *)
ComputeStoreContract ==
    /\ kpc = "idle"
    /\ \E b \in {Code1, Code2} :
          db' = update_new_contract(1, ToHex(Addr1), ToHex(b), db).db
    /\ UNCHANGED kvars

(* handle_message: IpcRequest::ComputeTask *)
ComputeCall ==
    /\ kpc = "idle"
    /\ \E input \in ComputeInputs : kinput' = input
    /\ kpc' = "decode"
    /\ kcalls' = <<>>
    /\ UNCHANGED <<kcode, kres, db>>

(* the four hex fields, in the order the handler decodes them *)
ComputeDecode ==
    /\ kpc = "decode"
    /\ \E dec \in {FirstFailure(<<FromHex(kinput.encrypted_args),
                                 FromHex32(kinput.address),
                                 FromHex(kinput.encrypted_fn),
                                 PubkeyOf(kinput)>>)} :
          IF IsOk(dec)
          THEN kpc' = "contract" /\ kres' = kres
          ELSE kpc' = "idle" /\ kres' = Outcome(dec)
    /\ UNCHANGED <<kinput, kcode, kcalls, db>>

(* the store read falling back to no bytes when there is no contract *)
ComputeGetContract_defaulting ==
    /\ kpc = "contract"
    /\ \E stored \in {db_get_contract(db, FromHex32(kinput.address).val)} :
          kcode' = IF IsOk(stored) THEN stored.val ELSE EmptyBytes
    /\ kpc' = "execute"
    /\ UNCHANGED <<kinput, kcalls, kres, db>>

(* DATABASE.lock_expect("P2P ComputeTask").get_contract(address)? *)
ComputeGetContract ==
    /\ kpc = "contract"
    /\ \E stored \in {db_get_contract(db, FromHex32(kinput.address).val)} :
          IF IsOk(stored)
          THEN kpc' = "execute" /\ kcode' = stored.val /\ kres' = kres
          ELSE kpc' = "idle" /\ kcode' = kcode /\ kres' = Outcome(stored)
    /\ UNCHANGED <<kinput, kcalls, db>>

(* wasm::execute(eid, &bytecode, ..)? and the response *)
ComputeExecute ==
    /\ kpc = "execute"
    /\ kcalls' = Append(kcalls, ExecuteArgs(kcode, kinput))
    /\ \E env \in EnvFor("ComputeTask") :
          kres' = Outcome(compute_task(1, kinput, db, env).res)
    /\ kpc' = "idle"
    /\ UNCHANGED <<kinput, kcode, db>>

vars == <<evars, dvars, wvars, svars, cvars, avars, gvars, kvars>>

(* the Epoch Register of the principal enclave, on its own *)
EpochNext ==
    \/ GenerateEpochSeed /\ UNCHANGED <<dvars, wvars, svars, cvars, avars, gvars, kvars>>
    \/ VerifyWorkerParams /\ UNCHANGED <<dvars, wvars, svars, cvars, avars, gvars, kvars>>
    \/ CommitWorkerParams /\ UNCHANGED <<dvars, wvars, svars, cvars, avars, gvars, kvars>>
    \/ SelectedWorkers /\ UNCHANGED <<dvars, wvars, svars, cvars, avars, gvars, kvars>>

Init == EpochInit /\ DispatchInit /\ DeployInit /\ StoreInit /\ ConcInit /\ RegInit /\ GenInit /\ ComputeInit

(* the request dispatcher of the core application, on its own *)
DispatchNext ==
    \/ Receive /\ UNCHANGED <<evars, wvars, svars, cvars, avars, gvars, kvars>>
    \/ HandleNext /\ UNCHANGED <<evars, wvars, svars, cvars, avars, gvars, kvars>>
    \/ Return /\ UNCHANGED <<evars, wvars, svars, cvars, avars, gvars, kvars>>

(* wasm::deploy, on its own *)
DeployNext ==
    \/ DeployCall /\ UNCHANGED <<evars, dvars, svars, cvars, avars, gvars, kvars>>
    \/ DeployBuild /\ UNCHANGED <<evars, dvars, svars, cvars, avars, gvars, kvars>>
    \/ DeployEcall /\ UNCHANGED <<evars, dvars, svars, cvars, avars, gvars, kvars>>
    \/ DeployReturn /\ UNCHANGED <<evars, dvars, svars, cvars, avars, gvars, kvars>>

SpecDeploy == Init /\ [][DeployNext]_vars

(* the store handlers, on their own *)
StoreNext == Serve /\ UNCHANGED <<evars, wvars, cvars, avars, gvars, kvars>>

SpecStore == Init /\ [][StoreNext]_vars

(* store handlers on the threads of the application, sharing DATABASE *)
ConcNext ==
    \/ \E t \in Threads : ThreadCall(t) /\ UNCHANGED <<evars, wvars, svars, avars, gvars, kvars, pc, nreq, request, results, response>>
    \/ \E t \in Threads : ThreadRun(t) /\ UNCHANGED <<evars, wvars, svars, avars, gvars, kvars, pc, nreq, request, results, response>>
    \/ \E t \in Threads : ThreadLock(t) /\ UNCHANGED <<evars, wvars, svars, avars, gvars, kvars, pc, nreq, request, results, response>>
    \/ \E t \in Threads : ThreadAccess(t) /\ UNCHANGED <<evars, wvars, svars, avars, gvars, kvars, pc, nreq, request, results, response>>
    \/ \E t \in Threads : ThreadUnlock(t) /\ UNCHANGED <<evars, wvars, svars, avars, gvars, kvars, pc, nreq, request, results, response>>

SpecConc == Init /\ [][ConcNext]_vars

(* the steps of get_registration_params after its call *)
RegStep == RegSigningAddress \/ RegQuote \/ RegReport \/ RegCheck

RegNext ==
    \/ RegCall /\ UNCHANGED <<evars, dvars, wvars, svars, cvars, gvars, kvars>>
    \/ RegSigningAddress /\ UNCHANGED <<evars, dvars, wvars, svars, cvars, gvars, kvars>>
    \/ RegQuote /\ UNCHANGED <<evars, dvars, wvars, svars, cvars, gvars, kvars>>
    \/ RegReport /\ UNCHANGED <<evars, dvars, wvars, svars, cvars, gvars, kvars>>
    \/ RegCheck /\ UNCHANGED <<evars, dvars, wvars, svars, cvars, gvars, kvars>>

(* every call the handler makes returns: the calls are synchronous and the
   handler goes on as soon as one returns *)
SpecReg == Init /\ [][RegNext]_vars /\ WF_vars(RegStep /\ UNCHANGED <<evars, dvars, wvars, svars, cvars, gvars, kvars>>)

(* generate_epoch_seed called on the threads of the principal *)
GenNext ==
    \/ \E t \in Threads : GenCall(t) /\ UNCHANGED <<poisoned, ret, dvars, wvars, svars, cvars, avars, kvars>>
    \/ \E t \in Threads : GenLock(t) /\ UNCHANGED <<poisoned, ret, dvars, wvars, svars, cvars, avars, kvars>>
    \/ \E t \in Threads : GenRead(t) /\ UNCHANGED <<poisoned, ret, dvars, wvars, svars, cvars, avars, kvars>>
    \/ \E t \in Threads : GenInsert(t) /\ UNCHANGED <<poisoned, ret, dvars, wvars, svars, cvars, avars, kvars>>
    \/ \E t \in Threads : GenUnlock(t) /\ UNCHANGED <<poisoned, ret, dvars, wvars, svars, cvars, avars, kvars>>

SpecGen == Init /\ [][GenNext]_vars

(* ComputeTask messages served one after another *)
ComputeNext ==
    \/ ComputeStoreContract /\ UNCHANGED <<evars, wvars, svars, cvars, avars, gvars, pc, nreq, request, results, response>>
    \/ ComputeCall /\ UNCHANGED <<evars, wvars, svars, cvars, avars, gvars, pc, nreq, request, results, response>>
    \/ ComputeDecode /\ UNCHANGED <<evars, wvars, svars, cvars, avars, gvars, pc, nreq, request, results, response>>
    \/ ComputeGetContract /\ UNCHANGED <<evars, wvars, svars, cvars, avars, gvars, pc, nreq, request, results, response>>
    \/ ComputeExecute /\ UNCHANGED <<evars, wvars, svars, cvars, avars, gvars, pc, nreq, request, results, response>>

SpecCompute == Init /\ [][ComputeNext]_vars

SpecDispatch == Init /\ [][DispatchNext]_vars

SpecEpoch == Init /\ [][EpochNext]_vars

----------------------------------------------------------------------------
(* Properties of the Request Dispatcher                                    *)

Handled == 1..Len(results)

(* the batch handed back is position-aligned with the batch received *)
Aligned ==
    /\ Len(response) = nreq
    /\ Len(request) = nreq
    /\ \A i \in 1..nreq : response[i] = UnwrapOrDefault(results[i])

(* C1: for every request batch of N messages handle_message returns a
   response batch of exactly N messages, the response at position i being
   the one produced for the request at position i. *)
C1_ReturnsAlignedBatch ==
    /\ pc # "panicked"
    /\ pc = "returned" => Aligned

(* What the loop does guarantee: a batch that is returned is aligned. *)
C1_ReturnedBatchAligned == pc = "returned" => Aligned

(* C2: a failure while handling message i never aborts the batch: whatever
   way the handler fails, message i gets a response and the loop goes on to
   the later messages and returns the response batch. *)
C2_FailureNeverAborts ==
    \A i \in Handled :
        ~IsOk(results[i]) =>
            /\ Len(response) >= i
            /\ pc \in {"handling", "returned"}

(* C3: the response for a message is the default/empty message if and only
   if that message's handler failed. *)
C3_EmptyIffFailed ==
    \A i \in Handled :
        /\ Len(response) >= i
        /\ response[i] = DefaultMessage <=> ~IsOk(results[i])

(* For the handlers that fail with an error value the equivalence holds. *)
C3_EmptyIffErr ==
    \A i \in 1..Len(response) :
        response[i] = DefaultMessage <=> IsErr(results[i])

(* C4 as claimed: every response message carries the id of the request it
   answers, whether the handler succeeded or failed. *)
C4_EveryResponseCarriesId ==
    \A i \in 1..Len(response) :
        /\ ~response[i].empty
        /\ response[i].id = request[i].id

(* C4 as the code has it: the response of a successfully handled request
   carries the id of that request unchanged; the response of a handler that
   returned an error is the empty message, which carries no id. *)
C4_SuccessResponseCarriesId ==
    \A i \in 1..Len(response) :
        IF IsOk(results[i])
        THEN /\ ~response[i].empty
             /\ response[i].id = request[i].id
        ELSE response[i] = DefaultMessage

C4_Witness ==
    /\ pc = "returned"
    /\ Len(response) = 2
    /\ IsOk(results[1]) /\ IsOk(results[2])
    /\ request[1].op = "GetTip"
    /\ request[1].id # request[2].id
    /\ response[1].id = request[1].id
    /\ response[2].id = request[2].id

(* C19: after a DeploySecretContract request for an address succeeded (its
   response carries exe_code, delta and signature), a following GetContract
   request for that address returns the deployed module bytes, not an empty
   bytecode.  (Every successful deploy and every successful GetContract of
   the request domain is for the address Addr1.) *)
C19_DeployedContractIsStored ==
    \A i \in 1..Len(response) : \A j \in 1..Len(response) :
        (/\ i < j
         /\ request[i].op = "DeploySecretContract" /\ IsOk(results[i])
         /\ request[j].op = "GetContract" /\ IsOk(results[j])) =>
            /\ response[i].result.exe_code.some
            /\ response[j].result # ToHex(EmptyBytes)
            /\ response[j].result = response[i].result.exe_code.val

(* C20: every successful task response carries exactly one of exe_code and
   output: a DeploySecretContract result has exe_code set and output
   absent, a ComputeTask result has output set and exe_code absent. *)
C20_ExactlyOneOfCodeAndOutput ==
    \A i \in 1..Len(response) :
        IsOk(results[i]) =>
            /\ request[i].op = "DeploySecretContract" =>
                  /\ response[i].type = "DeploySecretContract"
                  /\ response[i].result.exe_code.some
                  /\ ~response[i].result.output.some
            /\ request[i].op = "ComputeTask" =>
                  /\ response[i].type = "ComputeTask"
                  /\ response[i].result.output.some
                  /\ ~response[i].result.exe_code.some

C20_Witness ==
    /\ pc = "returned"
    /\ Len(response) = 2
    /\ request[1].op = "DeploySecretContract" /\ IsOk(results[1])
    /\ request[2].op = "ComputeTask" /\ IsOk(results[2])
    /\ response[1].result.exe_code.some
    /\ response[2].result.output.some

(* C27: IdentityChallenge always fails: for every id and nonce it never
   produces a success response (it produces no response message at all) and
   never changes the Delta Store or the Epoch Register. *)
C27_IdentityChallengeFails ==
    [][(/\ Len(request') = Len(request) + 1
        /\ request'[Len(request')].op = "IdentityChallenge") =>
            /\ ~IsOk(results'[Len(results')])
            /\ response' = response
            /\ db' = db
            /\ epochs' = epochs]_vars

C27_Witness ==
    /\ Len(request) = 2
    /\ request[2].op = "IdentityChallenge"
    /\ request[1].op = "UpdateDeltas"
    /\ IsOk(results[1])
    /\ ~IsOk(results[2])
    /\ DOMAIN db # {}
    /\ Len(response) = 1

----------------------------------------------------------------------------
(* Properties of the Epoch Register                                        *)

GenStep == ret'.op = "generate_epoch_seed" /\ ~poisoned

GenInputsOk == ret'.arg.rand_ok /\ ret'.arg.sign_ok

ExpectedNonce ==
    IF DOMAIN epochs = {} THEN 0 ELSE SetMax(DOMAIN epochs) + 1

(* C5: generate_epoch_seed stores the new Epoch under nonce 0 when the
   register is empty and under (maximum nonce + 1) otherwise, with
   worker_params absent, and returns that nonce. *)
C5_GenerateStoresAndReturnsNonce ==
    [][(GenStep /\ GenInputsOk) =>
         LET n == ExpectedNonce
         IN  /\ DOMAIN epochs' = DOMAIN epochs \cup {n}
             /\ ~epochs'[n].worker_params.some
             /\ IsOk(ret'.res)
             /\ ret'.res.val = n]_evars

(* The part of C5 the code does implement: the entry is stored under the
   expected nonce with worker_params absent. *)
C5_StoredUnderExpectedNonce ==
    [][(GenStep /\ GenInputsOk) =>
         LET n == ExpectedNonce
         IN  /\ DOMAIN epochs' = DOMAIN epochs \cup {n}
             /\ ~epochs'[n].worker_params.some
             /\ epochs'[n].seed = ret'.arg.seed]_evars

(* C6: generate_epoch_seed fails only when the new entry was not persisted:
   an error return leaves the register unchanged, and when randomness and
   signing succeed and the entry is stored the call returns the new nonce. *)
C6_GenerateFailsOnlyIfNotStored ==
    [][GenStep =>
         /\ (IsErr(ret'.res) => epochs' = epochs)
         /\ (GenInputsOk /\ epochs' # epochs) =>
                (IsOk(ret'.res) /\ ret'.res.val = SetMax(DOMAIN epochs'))]_evars

(* every entry carries the block hash of the entry with the next lower
   nonce, and the lowest entry carries the hardcoded genesis hash *)
HashChain ==
    \A n \in DOMAIN epochs :
        IF n = SetMin(DOMAIN epochs)
        THEN epochs[n].preverified_block_hash = PREVERIFIED_BLOCK_HASH
        ELSE /\ n - 1 \in DOMAIN epochs
             /\ epochs[n].preverified_block_hash
                    = epochs[n - 1].preverified_block_hash

(* C7: from an empty register two consecutive generate_epoch_seed calls both
   succeed and leave two entries with increasing nonces and equal block
   hashes; in every state the block hashes form the chain above. *)
C7_TwoSeedsSucceedAndChainHash ==
    /\ HashChain
    /\ (/\ ret.op = "generate_epoch_seed"
        /\ ret.arg.rand_ok /\ ret.arg.sign_ok
        /\ ~poisoned)
         => IsOk(ret.res)

(* C8: the current-epoch lookup returns the entry stored at the maximum
   nonce, and returns "no epoch" exactly when the register is empty. *)
C8_CurrentEpochIsMaxNonce ==
    LET r == get_epoch(epochs, NoneVal)
    IN  /\ IsOk(r)
        /\ r.val.some <=> DOMAIN epochs # {}
        /\ r.val.some =>
              \E n \in DOMAIN epochs :
                  /\ \A m \in DOMAIN epochs : m <= n
                  /\ r.val.val = epochs[n]

C8_Witness ==
    /\ Cardinality(DOMAIN epochs) >= 2
    /\ epochs[SetMax(DOMAIN epochs)] # epochs[SetMin(DOMAIN epochs)]
    /\ ret.op = "selected_workers"
    /\ ~ret.arg.block_number.some
    /\ ~poisoned

(* C9: the set of nonces only grows, every newly stored nonce is greater
   than every nonce already present, and generate_epoch_seed never
   overwrites an existing entry. *)
C9_NoncesOnlyGrow ==
    [][/\ DOMAIN epochs \subseteq DOMAIN epochs'
       /\ \A n \in DOMAIN epochs' \ DOMAIN epochs :
              \A m \in DOMAIN epochs : n > m
       /\ ret'.op = "generate_epoch_seed" =>
              \A m \in DOMAIN epochs : epochs'[m] = epochs[m]]_evars

C9_Witness ==
    /\ Cardinality(DOMAIN epochs) >= 3
    /\ \E n \in DOMAIN epochs : epochs[n].worker_params.some
    /\ ret.op = "generate_epoch_seed"
    /\ epochs[0].seed # epochs[SetMax(DOMAIN epochs)].seed

(* C10: a lookup with an explicit block number always fails: get_epoch
   returns an error in every register state, selected_workers never returns
   a worker set (it returns the error whenever it gets the register lock),
   and the register is unchanged. *)
C10_BlockNumberLookupFails ==
    /\ [](\A b \in BlockNumbers : IsErr(get_epoch(epochs, Some(b))))
    /\ [][(ret'.op = "selected_workers" /\ ret'.arg.block_number.some) =>
            /\ ~IsOk(ret'.res)
            /\ ~poisoned => IsErr(ret'.res)
            /\ epochs' = epochs]_evars

C10_Witness ==
    /\ ret.op = "selected_workers"
    /\ ret.arg.block_number.some
    /\ IsErr(ret.res)
    /\ DOMAIN epochs # {}
    /\ epochs[SetMax(DOMAIN epochs)].worker_params.some

VerifyStep == ret'.op = "verify_worker_params"

(* C11: verify_worker_params called with an empty block-header list fails
   with an error for every receipt and every register state (a poisoned
   register lock included), and the register is the same before and after
   the call. *)
C11_EmptyHeadersFail ==
    [][(VerifyStep /\ ret'.arg.block_headers = <<>>) =>
            /\ IsErr(ret'.res)
            /\ epochs' = epochs
            /\ poisoned' = poisoned]_evars

C11_Witness ==
    /\ ret.op = "verify_worker_params"
    /\ ret.arg.block_headers = <<>>
    /\ ret.arg.receipt.logs # <<>>
    /\ IsErr(ret.res)
    /\ DOMAIN epochs # {}
    /\ poisoned

(* the headers form a chain on top of the block of the given hash *)
ChainsBack(block_headers, hash) ==
    /\ block_headers # <<>>
    /\ block_headers[1].parent_hash = hash
    /\ \A i \in 2..Len(block_headers) :
           block_headers[i].parent_hash = block_headers[i - 1].hash

(* the receipt is part of a block of the chain *)
ReceiptVerifies(receipt, block_headers) ==
    \E i \in 1..Len(block_headers) : block_headers[i].hash = receipt.block_hash

(* C12: verify_worker_params returns WorkerParams only when the block
   headers chain back to the current epoch's preverified_block_hash and the
   receipt verifies against that chain; for a non-empty header list that
   does not chain back to the trusted hash the call fails. *)
C12_ParamsOnlyForVerifiedChain ==
    [][(VerifyStep /\ DOMAIN epochs # {}) =>
         LET hash == epochs[SetMax(DOMAIN epochs)].preverified_block_hash
             hs == ret'.arg.block_headers
         IN  /\ IsOk(ret'.res) =>
                    /\ ChainsBack(hs, hash)
                    /\ ReceiptVerifies(ret'.arg.receipt, hs)
             /\ (hs # <<>> /\ ~ChainsBack(hs, hash)) => ~IsOk(ret'.res)]_evars

CommitStep == ret'.op = "commit_worker_params"

(* C13: commit_worker_params fails whenever the nonce it targets (the
   hardcoded nonce 1) has no Epoch entry: it never succeeds, it returns an
   error whenever it gets the register lock, and the register is unchanged.
   When the entry exists the params go to that entry: a commit to an entry
   without params succeeds, and a successful commit leaves the params in the
   entry at the targeted nonce and every other entry as it was. *)
C13_CommitNeedsEntry ==
    [][CommitStep =>
         IF SET_PARAMS_NONCE \notin DOMAIN epochs
         THEN /\ ~IsOk(ret'.res)
              /\ ~poisoned => IsErr(ret'.res)
              /\ epochs' = epochs
         ELSE /\ (~poisoned /\ ~epochs[SET_PARAMS_NONCE].worker_params.some)
                    => IsOk(ret'.res)
              /\ IsOk(ret'.res) =>
                    epochs' = [epochs EXCEPT ![SET_PARAMS_NONCE].worker_params
                                                = Some(ret'.arg.params)]]_evars

C13_Witness ==
    /\ ret.op = "commit_worker_params"
    /\ IsErr(ret.res)
    /\ DOMAIN epochs = {0}
    /\ ~poisoned

(* C14: each Epoch goes from Seeded to ParamsCommitted and never back: an
   entry is created with no worker_params, and worker_params once attached
   to an entry are never removed or replaced by any later operation (so they
   are attached at most once). *)
C14_ParamsAttachedOnce ==
    [][/\ \A n \in DOMAIN epochs' \ DOMAIN epochs :
              ~epochs'[n].worker_params.some
       /\ \A n \in DOMAIN epochs :
              /\ n \in DOMAIN epochs'
              /\ epochs[n].worker_params.some =>
                     epochs'[n].worker_params = epochs[n].worker_params]_evars

C14_Witness ==
    /\ ret.op = "commit_worker_params"
    /\ IsErr(ret.res)
    /\ Cardinality(DOMAIN epochs) >= 3
    /\ epochs[SET_PARAMS_NONCE].worker_params.some
    /\ epochs[SET_PARAMS_NONCE].worker_params.val # ret.arg.params
    /\ ~epochs[SetMax(DOMAIN epochs)].worker_params.some

(* C30: when commit_worker_params completes, the epoch selected_workers
   reads (the entry at the maximum nonce) carries the committed
   worker_params, however many epochs were generated before; the commit
   changes only the worker_params of one entry and leaves the other entries
   and the set of nonces as they were. *)
C30_CommitReachesCurrentEpoch ==
    [][(CommitStep /\ IsOk(ret'.res)) =>
          /\ DOMAIN epochs' = DOMAIN epochs
          /\ epochs'[SetMax(DOMAIN epochs')].worker_params = Some(ret'.arg.params)
          /\ \A n \in DOMAIN epochs \ {SetMax(DOMAIN epochs)} :
                 epochs'[n] = epochs[n]]_evars

(* a commit has completed and the current epoch has no worker_params *)
C30_CommitMissedCurrentEpoch ==
    /\ ret.op = "commit_worker_params"
    /\ IsOk(ret.res)
    /\ DOMAIN epochs = {0, 1, 2}
    /\ epochs[1].worker_params = Some(ret.arg.params)
    /\ ~epochs[2].worker_params.some

SelectStep == ret'.op = "selected_workers"

(* C15: selected_workers is a function of the current epoch and the address
   alone: the worker set (or error) it returns is the selection computed
   from the entry at the maximum nonce and the address, whatever else the
   register holds, and the call never changes the register. *)
C15_SelectedWorkersPure ==
    [][SelectStep =>
         /\ epochs' = epochs
         /\ poisoned' = poisoned
         /\ (/\ ~poisoned
             /\ ~ret'.arg.block_number.some
             /\ DOMAIN epochs # {}) =>
                ret'.res = GetSelectedWorkers(epochs[SetMax(DOMAIN epochs)],
                                              ret'.arg.sc_addr)]_evars

C15_Witness ==
    /\ ret.op = "selected_workers"
    /\ IsOk(ret.res)
    /\ Cardinality(DOMAIN epochs) = 2
    /\ epochs[0].seed # epochs[1].seed
    /\ ~poisoned

----------------------------------------------------------------------------
(* Properties of wasm::deploy                                              *)

BoundaryFailed == result # "SGX_SUCCESS" \/ retval # "SGX_SUCCESS"

(* C16: a non-success status of the enclave boundary call (the status of
   the call itself or the enclave's retval) makes deploy return a failure,
   never a successful result, and the boundary call is not repeated. *)
C16_BoundaryFailureSurfaces ==
    /\ Len(ecalls) <= 1
    /\ (wpc = "done" /\ ecalls # <<>> /\ BoundaryFailed) => ~IsOk(deployed)

(* The part of C16 the code does implement: no second boundary call. *)
C16_NoRetry == Len(ecalls) <= 1

(* C17: a failure of build_constructor ends deploy with a failure and with
   no boundary call made; when build_constructor succeeds, exactly one
   boundary call, carrying the constructor bytes, is made per invocation,
   and none before build_constructor has returned. *)
C17_BuildFailureBeforeEcall ==
    LET r == build_constructor(bytecode)
    IN  /\ wpc \in {"idle", "build"} => ecalls = <<>>
        /\ wpc = "ecall" => (IsOk(r) /\ ecalls = <<>>)
        /\ wpc = "return" => (IsOk(r) /\ ecalls = <<r.val>>)
        /\ wpc = "done" =>
              IF IsOk(r)
              THEN ecalls = <<r.val>>
              ELSE ecalls = <<>> /\ deployed = r

C17_Witness ==
    /\ wpc = "done"
    /\ IsErr(deployed)
    /\ ~bytecode.wellformed
    /\ ecalls = <<>>

(* C18: the result returned by deploy never exceeds MAX_EVM_RESULT: when
   the enclave reports an output length larger than the capacity, deploy
   returns the result truncated to the capacity, without an error. *)
C18_ResultTruncatedToCapacity ==
    (wpc = "done" /\ ecalls # <<>>) =>
        /\ IsOk(deployed) => deployed.val.len <= MAX_EVM_RESULT
        /\ (output_len > MAX_EVM_RESULT /\ ~BoundaryFailed) =>
               /\ IsOk(deployed)
               /\ deployed.val = Bytes(MAX_EVM_RESULT, out.v)

(* The part of C18 the code does implement: a result that is returned is
   not longer than the capacity. *)
C18_ReturnedResultWithinCapacity ==
    (wpc = "done" /\ IsOk(deployed)) =>
        /\ deployed.val.len <= MAX_EVM_RESULT
        /\ deployed.val.len = output_len

----------------------------------------------------------------------------
(* Properties of the Delta Store as the request protocol reaches it        *)

BytecodeKeys(d) == {k \in DOMAIN d : k.key_type.t = "ByteCode"}

DeltaKeys(d) == {k \in DOMAIN d : k.key_type.t = "Delta"}

(* the records of the given keys are the same before and after the step *)
Kept(keys) == \A k \in keys : k \in DOMAIN db' /\ db'[k] = db[k]

(* UpdateDeltas neither changes nor adds a Bytecode record *)
UpdateDeltasKeepsBytecode ==
    last'.msg.op = "UpdateDeltas" =>
        /\ Kept(BytecodeKeys(db))
        /\ BytecodeKeys(db') = BytecodeKeys(db)

(* force_update, reached through UpdateNewContract only, neither changes
   nor adds a Delta record *)
ForceUpdateOnBytecodeOnly ==
    last'.msg.op = "UpdateNewContract" =>
        /\ Kept(DeltaKeys(db))
        /\ DeltaKeys(db') = DeltaKeys(db)

(* C21 as claimed: over any sequence of request messages UpdateDeltas never
   changes a Bytecode record, force_update is only ever applied to a
   Bytecode slot, and the bytecode stored for an address does not change
   after it was first stored. *)
C21_BytecodeNeverChanges ==
    [][/\ UpdateDeltasKeepsBytecode
       /\ ForceUpdateOnBytecodeOnly
       /\ Kept(BytecodeKeys(db))]_vars

(* C21 as the code has it: UpdateDeltas never changes a Bytecode record and
   force_update is only ever applied to a Bytecode slot; the bytecode stored
   for an address changes only by an UpdateNewContract request for that
   address, which overwrites it with the bytes of the request. *)
C21_BytecodeChangesOnlyByUpdateNewContract ==
    [][/\ UpdateDeltasKeepsBytecode
       /\ ForceUpdateOnBytecodeOnly
       /\ \A k \in BytecodeKeys(db') :
              (k \notin DOMAIN db \/ db'[k] # db[k]) =>
                  /\ last'.msg.op = "UpdateNewContract"
                  /\ IsOk(last'.res)
                  /\ ToHex(k.hash) = last'.msg.input.address
                  /\ ToHex(db'[k]) = last'.msg.input.bytecode
       /\ BytecodeKeys(db) \subseteq BytecodeKeys(db')]_vars

C21_Witness ==
    /\ last.msg.op = "UpdateDeltas"
    /\ IsOk(last.res)
    /\ Len(last.msg.input) = 3
    /\ DeltaKey(Addr1, ByteCode) \in DOMAIN db
    /\ db[DeltaKey(Addr1, ByteCode)] = Code2
    /\ DeltaIdx(db, Addr1) # {}

(* the key and the bytes an UpdateDeltas item names *)
ItemKey(item) == DeltaKey(item.address.val.bytes, Delta(item.key))

ItemData(item) == item.delta.val.bytes

(* item i of the batch targets a key that is stored when its turn comes *)
TargetsStored(items, i) ==
    \/ ItemKey(items[i]) \in DOMAIN db
    \/ \E j \in 1..(i - 1) : ItemKey(items[j]) = ItemKey(items[i])

UpdateDeltasDone == last'.msg.op = "UpdateDeltas" /\ IsOk(last'.res)

(* C22: deltas are never mutated or deleted: over any sequence of request
   messages a delta stored at (address, index) keeps its bytes and its key;
   an UpdateDeltas item that targets an already stored (address, index) gets
   a failure status, and the items of the batch that target a free key are
   stored all the same. *)
C22_DeltasNeverMutated ==
    [][/\ Kept(DeltaKeys(db))
       /\ UpdateDeltasDone =>
             LET items == last'.msg.input
                 errors == last'.res.val.result.errors
             IN  \A i \in 1..Len(items) :
                    IF TargetsStored(items, i)
                    THEN errors[i].status # 0
                    ELSE /\ errors[i].status = 0
                         /\ ItemKey(items[i]) \in DOMAIN db'
                         /\ db'[ItemKey(items[i])] = ItemData(items[i])]_vars

C22_Witness ==
    /\ last.msg.op = "UpdateDeltas"
    /\ IsOk(last.res)
    /\ Len(last.msg.input) = 3
    /\ last.res.val.result.errors[1].status = 1
    /\ last.res.val.result.errors[2].status = 1
    /\ last.res.val.result.errors[3].status = 0
    /\ ItemData(last.msg.input[1]) = Data1
    /\ db[ItemKey(last.msg.input[1])] = Data2
    /\ db[ItemKey(last.msg.input[3])] = ItemData(last.msg.input[3])

(* the record the protocol carries for the delta of address a at index n *)
StoredDelta(a, n) ==
    IpcDelta(Some(ToHex(a)), n, Some(ToHex(db[DeltaKey(a, Delta(n))])))

(* C23: for every address A, in every reachable state, get_tip(A) returns
   the maximum stored index of A with the bytes stored there; when the
   deltas 0..N-1 of A are stored (N >= 1), that index is N-1 and
   get_deltas(A, 0, N) returns exactly these N records in ascending index
   order.  A GetTip or GetDeltas request that was served got that answer. *)
C23_TipAndRangeOfDenseDeltas ==
    /\ \A a \in StoreAddrs :
          LET idx == DeltaIdx(db, a)
              n == Cardinality(idx)
          IN  idx # {} =>
                /\ get_tip(1, ToHex(a), db).res
                      = Ok(IpcResponse("GetTip", 1,
                             IpcDelta(NoneVal, SetMax(idx),
                                 Some(ToHex(db[DeltaKey(a, Delta(SetMax(idx)))])))))
                /\ idx = 0..(n - 1) =>
                      /\ SetMax(idx) = n - 1
                      /\ get_deltas(1, <<GetDeltasItem(ToHex(a), 0, n)>>, db).res
                            = Ok(IpcResponse("GetDeltas", 1,
                                   [i \in 1..n |-> StoredDelta(a, i - 1)]))
    /\ last.msg.op = "GetTip" => last.res = get_tip(1, last.msg.input, db).res
    /\ last.msg.op = "GetDeltas" =>
          last.res = get_deltas(1, last.msg.input, db).res

C23_Witness ==
    /\ last.msg.op = "GetDeltas"
    /\ last.msg.input = <<GetDeltasItem(ToHex(Addr1), 0, MaxIndex + 1)>>
    /\ IsOk(last.res)
    /\ DeltaIdx(db, Addr1) = 0..MaxIndex
    /\ Len(last.res.val.result) = MaxIndex + 1
    /\ last.res.val.result[1].delta = Some(ToHex(Data2))
    /\ last.res.val.result[MaxIndex + 1].key = MaxIndex

(* the item passes the decoding loop of update_deltas *)
Decodes(item) ==
    /\ item.address.some
    /\ IsOk(FromHex32(item.address.val))
    /\ item.delta.some
    /\ IsOk(FromHex(item.delta.val))

(* C24: an UpdateDeltas request with k items, each of which decodes, yields
   k position-aligned per-item statuses: entry i carries the address and the
   index of item i and a status that is 0 exactly when the insert of item i
   succeeded; a failing item does not keep the other items of the batch
   from being stored, and these are returned by GetDelta afterwards. *)
C24_PerItemStatuses ==
    [][last'.msg.op = "UpdateDeltas" =>
         LET items == last'.msg.input
         IN  /\ IsOk(last'.res) <=> \A i \in 1..Len(items) : Decodes(items[i])
             /\ IsOk(last'.res) =>
                   LET errors == last'.res.val.result.errors
                   IN  /\ Len(errors) = Len(items)
                       /\ \A i \in 1..Len(items) :
                             /\ errors[i].address = items[i].address.val
                             /\ errors[i].key = items[i].key
                             /\ errors[i].status = 0 <=> ~TargetsStored(items, i)
                             /\ ~TargetsStored(items, i) =>
                                   get_delta(1, IpcDelta(items[i].address,
                                                         items[i].key, NoneVal),
                                             db').res
                                     = Ok(IpcResponse("GetDelta", 1,
                                             items[i].delta.val))]_vars

C24_Witness ==
    /\ last.msg.op = "UpdateDeltas"
    /\ IsOk(last.res)
    /\ Len(last.msg.input) = 3
    /\ last.res.val.result.errors[1].status = 0
    /\ last.res.val.result.errors[2].status = 1
    /\ last.res.val.result.errors[3].status = 0
    /\ last.res.val.result.errors[3].address = ToHex(Addr1)
    /\ db[ItemKey(last.msg.input[3])] = Data2

(* C25: reading absent data is an empty success, not an error: GetContract
   for a well-formed address with no bytecode returns a success response
   with empty bytecode; GetAllTips on a store without deltas and GetAllAddrs
   on a store without data return success responses with an empty list. *)
C25_AbsentDataIsEmptySuccess ==
    /\ \A a \in StoreAddrs :
          DeltaKey(a, ByteCode) \notin DOMAIN db =>
              LET r == get_contract(1, ToHex(a), db).res
              IN  IsOk(r) /\ r.val.result = ToHex(EmptyBytes)
    /\ DeltaKeys(db) = {} =>
          LET r == get_all_tips(1, db).res
          IN  IsOk(r) /\ r.val.result = <<>>
    /\ DOMAIN db = {} =>
          LET r == get_all_addrs(1, db).res
          IN  IsOk(r) /\ r.val.result = <<>>
    /\ (/\ last.msg.op = "GetContract"
        /\ IsOk(FromHex32(last.msg.input))
        /\ DeltaKey(last.msg.input.bytes, ByteCode) \notin DOMAIN db) =>
            /\ IsOk(last.res)
            /\ last.res.val.result = ToHex(EmptyBytes)
    /\ (last.msg.op = "GetAllTips" /\ DeltaKeys(db) = {}) =>
            (IsOk(last.res) /\ last.res.val.result = <<>>)
    /\ (last.msg.op = "GetAllAddrs" /\ DOMAIN db = {}) =>
            (IsOk(last.res) /\ last.res.val.result = <<>>)

C25_Witness ==
    /\ last.msg.op = "GetContract"
    /\ last.msg.input = ToHex(Addr2)
    /\ IsOk(last.res)
    /\ last.res.val.result = ToHex(EmptyBytes)
    /\ DeltaKey(Addr1, ByteCode) \in DOMAIN db
    /\ DeltaIdx(db, Addr2) # {}

(* the indexes of the deltas stored for the range of a GetDeltas item *)
RangeIdx(item) ==
    {n \in DeltaIdx(db, item.address.bytes) : item.from <= n /\ n < item.to}

(* what the caller is to get for one range: the stored records in ascending
   index order, or the one "no data" record *)
RangeAnswer(item) ==
    IF RangeIdx(item) = {}
    THEN <<IpcDeltaDefault>>
    ELSE LET ns == SortedInts(RangeIdx(item))
         IN  [i \in 1..Len(ns) |-> StoredDelta(item.address.bytes, ns[i])]

RECURSIVE RangeAnswers(_)
RangeAnswers(items) ==
    IF items = <<>> THEN <<>>
    ELSE RangeAnswer(items[1]) \o RangeAnswers(Tail(items))

(* C26: for a GetDeltas range with no matching deltas the caller gets an
   explicit "no data" record, which differs from the error outcome (the
   empty response message) and from every record of a range that matched;
   the records of the other ranges of the request are returned as well, in
   request order. *)
C26_NoDataIndicator ==
    /\ \A k \in DeltaKeys(db) :
          StoredDelta(k.hash, k.key_type.n) # IpcDeltaDefault
    /\ (/\ last.msg.op = "GetDeltas"
        /\ \A i \in 1..Len(last.msg.input) :
               IsOk(FromHex32(last.msg.input[i].address))) =>
            /\ IsOk(last.res)
            /\ UnwrapOrDefault(last.res) # DefaultMessage
            /\ last.res.val.result = RangeAnswers(last.msg.input)

C26_Witness ==
    /\ last.msg.op = "GetDeltas"
    /\ Len(last.msg.input) = 3
    /\ IsOk(last.res)
    /\ Len(last.res.val.result) = 4
    /\ {0, 1, 2} \subseteq DeltaIdx(db, Addr1)
    /\ DeltaIdx(db, Addr2) = {}
    /\ last.res.val.result[1] = StoredDelta(Addr1, 0)
    /\ last.res.val.result[2] = IpcDeltaDefault
    /\ last.res.val.result[4] = StoredDelta(Addr1, 2)

----------------------------------------------------------------------------
(* Properties of the DATABASE mutex                                        *)

(* the answer a handler gives when it runs alone on the store d *)
AnswerOn(msg, d) == Route(msg, d, "ok").res

SameResult(a, b) ==
    /\ a.kind = b.kind
    /\ IsOk(a) => a.val.result = b.val.result

Returns(t) == tpc[t] # "idle" /\ tpc'[t] = "idle"

(* every store call is made by the holder of the lock, and one thread at a
   time is inside a store call *)
AccessUnderLock ==
    \A t \in Threads :
        tpc[t] \in {"locked", "unlock"} =>
            /\ lock = t
            /\ \A u \in Threads \ {t} : tpc[u] \notin {"locked", "unlock"}

(* the response is built after the guard is dropped *)
ReleasedBeforeEncoding ==
    \A t \in Threads : Returns(t) => lock # t /\ lock' # t

(* what a returning handler answers is what it would answer on one store
   state that existed during its call: no batch is seen in part *)
AnswersFromOneStore ==
    \A t \in Threads :
        Returns(t) =>
            \E d \in seen[t] : SameResult(AnswerOn(treq[t], d), tres'[t].val)

C28_LockDiscipline == [][AccessUnderLock' /\ ReleasedBeforeEncoding]_vars

(* C28: store accesses are mutually exclusive and never torn: every handler
   access to the store runs under the lock, no two store operations run at
   the same time, the lock is released before the response is encoded, and a
   concurrent reader never observes only part of the inserts of one
   UpdateDeltas batch. *)
C28_ExclusiveAndNeverTorn ==
    [][AccessUnderLock' /\ ReleasedBeforeEncoding /\ AnswersFromOneStore]_vars

(* a GetTips over two addresses returns while both tips it could have read
   from one store state differ from what another thread inserted meanwhile *)
C28_PartialBatchSeen ==
    \E t \in Threads :
        /\ tpc[t] = "idle"
        /\ treq[t].op = "GetTips"
        /\ tres[t].some
        /\ IsOk(tres[t].val)
        /\ Len(tres[t].val.val.result) = 2
        /\ tres[t].val.val.result[1].key # tres[t].val.val.result[2].key

----------------------------------------------------------------------------
(* Properties of get_registration_params                                   *)

QuoteExhausted == apc = "quote" /\ attempts' = QUOTE_RETRIES /\ apc' # "report"

(* C29: GetRegistrationParams attempts the attestation quote at most 18
   times; when all of them fail the message fails (its response is the
   default message) and the quote is not attempted again; the handler always
   terminates. *)
C29_QuoteAttemptsBounded ==
    /\ [](attempts <= QUOTE_RETRIES)
    /\ [][QuoteExhausted =>
            /\ apc' = "idle"
            /\ ares'.some
            /\ IsErr(ares'.val)
            /\ UnwrapOrDefault(ares'.val) = DefaultMessage]_vars
    /\ [][apc = "idle" /\ apc' = "idle" => attempts' = attempts]_vars
    /\ (apc # "idle" ~> apc = "idle")

C29_Witness ==
    /\ apc = "idle"
    /\ attempts = QUOTE_RETRIES
    /\ ares.some
    /\ IsErr(ares.val)
    /\ ares.val.val.err = "QuoteErr"

----------------------------------------------------------------------------
(* Properties of the EPOCH mutex                                           *)

GenInserts(t) == gpc[t] = "insert" /\ gpc'[t] = "unlock" /\ epochs' # epochs

(* C31: nonce allocation is atomic: a generate_epoch_seed call reads the
   maximum nonce and inserts its entry inside one critical section on the
   register lock, so calls running concurrently store distinct nonces and
   none overwrites an entry of another. *)
C31_NonceAllocationAtomic ==
    [][/\ \A t \in Threads :
             (gpc[t] \in {"locked", "insert", "unlock"}) => glock = t
       /\ \A t \in Threads :
             GenInserts(t) =>
                /\ gloc[t].nonce \notin DOMAIN epochs
                /\ DOMAIN epochs' = DOMAIN epochs \cup {gloc[t].nonce}
       /\ \A n \in DOMAIN epochs :
             n \in DOMAIN epochs' /\ epochs'[n] = epochs[n]]_vars

(* thread 2 entered the call while thread 1 held the lock, and both stored *)
C31_Witness ==
    /\ DOMAIN epochs = {0, 1}
    /\ gpc[2] = "unlock"
    /\ gloc[2].nonce = 1
    /\ gloc[1].nonce = 0
    /\ gpc[1] = "idle"
    /\ gret[1].some
    /\ gret[2].some
    /\ epochs[0].seed # epochs[1].seed

----------------------------------------------------------------------------
(* Failures of the register operations                                     *)

(* C32: verify_worker_params and selected_workers fail with an error value
   when the register is empty; verify_worker_params never changes the
   register; a receipt without log entries makes verify_worker_params return
   an error and leaves the register lock usable, so later register
   operations still work. *)
C32_VerifyFailsWithErrorValue ==
    [][/\ VerifyStep =>
            /\ epochs' = epochs
            /\ DOMAIN epochs = {} => IsErr(ret'.res)
            /\ (~poisoned /\ ret'.arg.receipt.logs = <<>>) =>
                    IsErr(ret'.res) /\ ~poisoned'
       /\ (SelectStep /\ DOMAIN epochs = {}) => IsErr(ret'.res)]_evars

(* after a receipt without logs the register lock is poisoned and the next
   operation on the register panics *)
C32_LaterOperationPanics ==
    /\ poisoned
    /\ DOMAIN epochs # {}
    /\ ret.op = "selected_workers"
    /\ ~ret.arg.block_number.some
    /\ IsPanic(ret.res)

----------------------------------------------------------------------------
(* Failures of the store handlers                                          *)

(* C33: UpdateDeltas validates all items before it inserts any: when an item
   of the request lacks an address, lacks delta bytes or has malformed hex,
   the message fails (its response is the default message) and no item of
   the request is stored, the well-formed ones in front of the bad item
   included. *)
C33_AllItemsValidatedFirst ==
    [][(/\ last'.msg.op = "UpdateDeltas"
        /\ \E i \in 1..Len(last'.msg.input) : ~Decodes(last'.msg.input[i])) =>
            /\ IsErr(last'.res)
            /\ UnwrapOrDefault(last'.res) = DefaultMessage
            /\ db' = db]_vars

C33_Witness ==
    /\ last.msg.op = "UpdateDeltas"
    /\ Len(last.msg.input) = 2
    /\ Decodes(last.msg.input[1])
    /\ ~Decodes(last.msg.input[2])
    /\ IsErr(last.res)
    /\ ItemKey(last.msg.input[1]) \notin DOMAIN db
    /\ DOMAIN db # {}

(* the address decodes and has a delta in the store *)
HasTip(input) ==
    /\ IsOk(FromHex32(input))
    /\ DeltaIdx(db, FromHex32(input).val) # {}

(* C34: GetTip for an address with no stored delta fails (its response is
   the default message); GetTips fails as a whole as soon as one of its
   addresses is malformed or has no tip, without a partial list of the tips
   found before; the store is unchanged. *)
C34_TipFailures ==
    [][/\ (last'.msg.op = "GetTip" /\ ~HasTip(last'.msg.input)) =>
             /\ IsErr(last'.res)
             /\ UnwrapOrDefault(last'.res) = DefaultMessage
       /\ (/\ last'.msg.op = "GetTips"
           /\ \E i \in 1..Len(last'.msg.input) : ~HasTip(last'.msg.input[i])) =>
             /\ IsErr(last'.res)
             /\ UnwrapOrDefault(last'.res) = DefaultMessage
       /\ last'.msg.op \in {"GetTip", "GetTips"} => db' = db]_vars

C34_Witness ==
    /\ last.msg.op = "GetTips"
    /\ Len(last.msg.input) = 2
    /\ HasTip(last.msg.input[1])
    /\ ~HasTip(last.msg.input[2])
    /\ IsOk(FromHex32(last.msg.input[2]))
    /\ IsErr(last.res)

----------------------------------------------------------------------------
(* Properties of compute_task                                              *)

KAddress == FromHex32(kinput.address)

KStored == DeltaKey(KAddress.val, ByteCode)

(* C35: ComputeTask for an address without stored bytecode fails before any
   call of the enclave, and the bytecode ComputeTask passes to the enclave
   is the one stored for the address, never bytes of the request. *)
C35_ComputeUsesStoredBytecode ==
    [][/\ (kpc # "idle" /\ kpc' = "idle" /\ IsOk(KAddress)
              /\ KStored \notin DOMAIN db) =>
            kcalls' = <<>> /\ ~IsOk(kres')
       /\ kcalls' # kcalls /\ kcalls' # <<>> =>
            /\ KStored \in DOMAIN db
            /\ kcalls' = <<ExecuteArgs(db[KStored], kinput)>>
            /\ db' = db]_vars

(* the enclave was called with the stored bytes for a request that carries
   other bytes *)
C35_Witness ==
    /\ kpc = "idle"
    /\ Len(kcalls) = 1
    /\ kcalls[1].bytecode = Code2
    /\ kinput.pre_code = Some(ToHex(Code1))
    /\ IsOk(kres)

====
